---- MODULE Spec2Model ----
(***************************************************************************)
(* Treasury-planning dashboard (fund-demo2): the debt schedule generator,  *)
(* the ledger merger, the ledger table, the calendar and the dashboard     *)
(* aggregations, and the App state that feeds them.                        *)
(*                                                                         *)
(* Numbers.  A JavaScript number is modelled as an exact rational          *)
(* [n |-> numerator, d |-> denominator > 0] in lowest terms; +, * and /    *)
(* are the exact operations, so IEEE-754 rounding is outside the model.    *)
(*                                                                         *)
(* Dates.  A date string "YYYY-MM-DD" is the record [y, m, d].  The Date   *)
(* built from such a string is the instant of UTC midnight of that day;    *)
(* since every instant the engine handles is such a midnight, an instant   *)
(* is modelled by its UTC date.  getMonth/setMonth work on the host's      *)
(* local calendar date: tzWest tells whether the host's UTC offset is      *)
(* negative (the local date of a UTC midnight is the previous day) or not. *)
(* Daylight-saving transitions are outside the model.                      *)
(***************************************************************************)
EXTENDS Integers, Sequences, FiniteSets, TLC

VARIABLES
    debts,               \* App state: Debt[]
    manualTransactions,  \* App state: Transaction[]
    financingFailRate,   \* App state: 0..100 (%)
    shiborShock,         \* App state: bps
    hiborShock,          \* App state: bps
    sofrShock,           \* App state: bps
    simRates,            \* App state: [HKD_TO_RMB, USD_TO_RMB]
    scenarioMode,        \* App state: "BASE" | "OPTIMISTIC" | "PESSIMISTIC"
    baseCurrency,        \* App state: "RMB" | "HKD" | "USD"
    entityFilter,        \* App state: "ALL" | entity
    searchTerm,          \* FinancialTable state: NoSearch ('') or "YYYY-MM" as a MonthKey
    chartFilter,         \* Dashboard state: "ALL" | entity
    debtTransactions,    \* the value memoised by useMemo(debtTransactions)
    generatedAt,         \* the clock value that the run which produced it read
    now,                 \* the wall clock: UTC date of new Date()
    tzWest,              \* host environment: UTC offset is negative
    isCloudEnabled,      \* services/supabase: a cloud client was configured
    loading,             \* App state: the initial load has not finished
    syncStatus,          \* App state: "CONNECTED" | "LOCAL"
    loadPc,              \* loadData: "mount" (not started), "race" (awaiting Promise.race), "done"
    fetchState,          \* the promise of fetchCloudTransactions(): "idle", "pending" or its result
    timer,               \* the 5 s setTimeout: "idle", "armed", "fired"
    cloudCalls           \* number of saveCloudTransaction/deleteCloudTransaction calls made

vars == <<debts, manualTransactions, financingFailRate, shiborShock, hiborShock,
          sofrShock, simRates, scenarioMode, baseCurrency, entityFilter,
          searchTerm, chartFilter, debtTransactions, generatedAt, now, tzWest,
          isCloudEnabled, loading, syncStatus, loadPc, fetchState, timer, cloudCalls>>

\* the variables of the cloud synchronisation
cloudVars == <<isCloudEnabled, loading, syncStatus, loadPc, fetchState, timer, cloudCalls>>

\* the App that is always local: no client, the mount effect has run
LocalOnly ==
    /\ isCloudEnabled = FALSE
    /\ loading = FALSE
    /\ syncStatus = "LOCAL"
    /\ loadPc = "done"
    /\ fetchState = "idle"
    /\ timer = "idle"
    /\ cloudCalls = 0

-----------------------------------------------------------------------------
(* JavaScript number arithmetic, as exact rationals *)

Abs(x) == IF x < 0 THEN -x ELSE x

RECURSIVE GCD(_, _)
GCD(a, b) == IF b = 0 THEN a ELSE GCD(b, a % b)

\* the rational n/d (d # 0) in lowest terms with a positive denominator
Rat(n, d) ==
    LET g == GCD(Abs(n), Abs(d))
        s == IF d < 0 THEN -1 ELSE 1
    IN  [n |-> (s * n) \div g, d |-> (s * d) \div g]

Num(k) == [n |-> k, d |-> 1]
Zero == Num(0)
RAdd(a, b) == Rat(a.n * b.d + b.n * a.d, a.d * b.d)
RMul(a, b) == Rat(a.n * b.n, a.d * b.d)
RDiv(a, b) == Rat(a.n * b.d, a.d * b.n)
RNeg(a) == [n |-> -(a.n), d |-> a.d]
RAbs(a) == [n |-> Abs(a.n), d |-> a.d]
RPos(a) == a.n > 0

-----------------------------------------------------------------------------
(* Calendar dates *)

Date(y, m, d) == [y |-> y, m |-> m, d |-> d]

IsLeap(y) == (y % 4 = 0 /\ y % 100 # 0) \/ y % 400 = 0

DaysInMonth(y, m) ==
    IF m = 2 THEN (IF IsLeap(y) THEN 29 ELSE 28)
    ELSE IF m \in {4, 6, 9, 11} THEN 30 ELSE 31

\* new Date(a.date).getTime(): a number that orders the dates; y*512 + m*32 + d
\* orders valid dates as their instants do
GetTime(dt) == dt.y * 512 + dt.m * 32 + dt.d

NextDay(dt) ==
    IF dt.d < DaysInMonth(dt.y, dt.m) THEN Date(dt.y, dt.m, dt.d + 1)
    ELSE IF dt.m < 12 THEN Date(dt.y, dt.m + 1, 1)
    ELSE Date(dt.y + 1, 1, 1)

PrevDay(dt) ==
    IF dt.d > 1 THEN Date(dt.y, dt.m, dt.d - 1)
    ELSE IF dt.m > 1 THEN Date(dt.y, dt.m - 1, DaysInMonth(dt.y, dt.m - 1))
    ELSE Date(dt.y - 1, 12, 31)

\* the number of the day dt, counting days from 1970-01-01 (getTime() / 86400000)
DayNumber(dt) ==
    LET y == IF dt.m <= 2 THEN dt.y - 1 ELSE dt.y
        era == y \div 400
        yoe == y - era * 400
        mp == IF dt.m > 2 THEN dt.m - 3 ELSE dt.m + 9
        doy == (153 * mp + 2) \div 5 + dt.d - 1
        doe == yoe * 365 + yoe \div 4 - yoe \div 100 + doy
    IN  era * 146097 + doe - 719468

\* the date of day number z
DateOfDay(z) ==
    LET era == (z + 719468) \div 146097
        doe == (z + 719468) - era * 146097
        yoe == (doe - doe \div 1460 + doe \div 36524 - doe \div 146096) \div 365
        doy == doe - (365 * yoe + yoe \div 4 - yoe \div 100)
        mp == (5 * doy + 2) \div 153
        m == IF mp < 10 THEN mp + 3 ELSE mp - 9
    IN  Date(yoe + era * 400 + (IF m <= 2 THEN 1 ELSE 0), m, doy - (153 * mp + 2) \div 5 + 1)

\* d.setDate(d.getDate() + k)
AddDays(dt, k) == DateOfDay(DayNumber(dt) + k)

\* the host's local calendar date at the instant of UTC midnight of dt
LocalDate(dt) == IF tzWest THEN PrevDay(dt) ELSE dt

\* the UTC date (toISOString) of the instant whose local date is dt and whose
\* local time of day is that of a UTC midnight
UtcDate(dt) == IF tzWest THEN NextDay(dt) ELSE dt

\* Date normalisation of (year, month index, day): the month carries into the
\* year, a day past the end of the month carries into the next month
NormalizeDate(y, mIdx, d) ==
    LET yy == y + (mIdx \div 12)
        mm == (mIdx % 12) + 1
        dim == DaysInMonth(yy, mm)
    IN  IF d <= dim THEN Date(yy, mm, d)
        ELSE IF mm < 12 THEN Date(yy, mm + 1, d - dim)
        ELSE Date(yy + 1, 1, d - dim)

\* curr.setMonth(curr.getMonth() + k) on the instant of UTC midnight of dt
SetMonth(dt, k) ==
    LET loc == LocalDate(dt)
    IN  UtcDate(NormalizeDate(loc.y, (loc.m - 1) + k, loc.d))

\* t.date.substring(0, 7)
MonthKey(dt) == dt.y * 100 + dt.m

\* useState(''): the empty search term.  The search terms of the model are the
\* empty one and month prefixes "YYYY-MM", a prefix being written as its MonthKey
NoSearch == 0

-----------------------------------------------------------------------------
(* Debt schedule generator: useMemo(debtTransactions) *)

NoDate == Date(0, 0, 0)
NoDebt == 0

\* mutant: the id is numbered by the size of the ledger at generation time
\* instead of being derived from the debt
TxId_Numbered(kind, ref, at) ==
    [kind |-> kind, ref |-> ref + Len(manualTransactions), at |-> at]

\* `princ-in-${debt.id}`, `int-${debt.id}-${curr.toISOString()}`,
\* `princ-out-${debt.id}`, and generateId() for manual entries
TxId(kind, ref, at) == [kind |-> kind, ref |-> ref, at |-> at]

\* a description: its fixed text and the number interpolated into it (0: none)
Descr(text, pct) == [text |-> text, pct |-> pct]

\* r.toFixed(digits) as a count of units of 10^-digits (scale = 10^digits): the
\* nearest one, the one further from zero when two are as near
ToFixed(r, scale) ==
    IF r.n >= 0 THEN (2 * scale * r.n + r.d) \div (2 * r.d)
    ELSE -((2 * scale * (-(r.n)) + r.d) \div (2 * r.d))

\* r.toFixed(2), as a count of hundredths
ToFixed2(r) == ToFixed(r, 100)

\* mutant: the amount is written to every currency slot
Slot_EverySlot(debt, cur, amount) == amount

\* debt.currency === Currency.X ? amount : 0
Slot(debt, cur, amount) == IF debt.currency = cur THEN amount ELSE Zero

\* mutant: the factor is applied whatever the status
PrincipalFactor_AnyStatus(isPlanned, failRate) == Rat(100 - failRate, 100)

\* isPlanned ? ((100 - financingFailRate) / 100) : 1
PrincipalFactor(isPlanned, failRate) ==
    IF isPlanned THEN Rat(100 - failRate, 100) ELSE Num(1)

\* mutant: the draw is the full principal, the failure rate is not applied
DrawEvents_FullPrincipal(debt, failRate) ==
    IF debt.status = "PLANNED"
    THEN << [id           |-> TxId("princ-in", debt.id, NoDate),
             date         |-> debt.startDate,
             entity       |-> debt.entity,
             category     |-> "FINANCING",
             description  |-> Descr("[draw]", IF failRate > 0 THEN failRate ELSE 0),
             amountHKD    |-> Slot(debt, "HKD", debt.principal),
             amountRMB    |-> Slot(debt, "RMB", debt.principal),
             amountUSD    |-> Slot(debt, "USD", debt.principal),
             status       |-> "FORECAST",
             linkedDebtId |-> debt.id] >>
    ELSE << >>

\* 1. Principal Inflow
DrawEvents(debt, failRate) ==
    IF debt.status = "PLANNED"
    THEN LET failFactor == Rat(100 - failRate, 100)
             effectivePrincipal == RMul(debt.principal, failFactor)
         IN  << [id           |-> TxId("princ-in", debt.id, NoDate),
                 date         |-> debt.startDate,
                 entity       |-> debt.entity,
                 category     |-> "FINANCING",
                 description  |-> Descr("[draw]", IF failRate > 0 THEN failRate ELSE 0),
                 amountHKD    |-> Slot(debt, "HKD", effectivePrincipal),
                 amountRMB    |-> Slot(debt, "RMB", effectivePrincipal),
                 amountUSD    |-> Slot(debt, "USD", effectivePrincipal),
                 status       |-> "FORECAST",
                 linkedDebtId |-> debt.id] >>
    ELSE << >>

\* mutant: the shock is added as percentage points, not divided by 100
StressRateAdd_Bps(benchmark, shibor, hibor, sofr) ==
    IF benchmark = "SOFR" THEN Num(sofr)
    ELSE IF benchmark = "HIBOR" THEN Num(hibor)
    ELSE IF benchmark = "SHIBOR" THEN Num(shibor)
    ELSE Zero

\* every floating-rate debt moves with the SHIBOR shock as well
StressRateAdd_WithShibor(benchmark, shibor, hibor, sofr) ==
    IF benchmark = "SOFR" THEN Rat(sofr + shibor, 100)
    ELSE IF benchmark = "HIBOR" THEN Rat(hibor + shibor, 100)
    ELSE IF benchmark = "SHIBOR" THEN Rat(shibor, 100)
    ELSE Zero

\* stressRateAdd: the shock of the debt's own benchmark, bps / 100
StressRateAdd(benchmark, shibor, hibor, sofr) ==
    IF benchmark = "SOFR" THEN Rat(sofr, 100)
    ELSE IF benchmark = "HIBOR" THEN Rat(hibor, 100)
    ELSE IF benchmark = "SHIBOR" THEN Rat(shibor, 100)
    ELSE Zero

\* mutant: the AT_MATURITY line is missing, the default of 1 month stays
IntervalMonths_NoAtMaturity(frequency) ==
    IF frequency = "ANNUALLY" THEN 12
    ELSE IF frequency = "SEMI_ANNUALLY" THEN 6
    ELSE IF frequency = "QUARTERLY" THEN 3
    ELSE 1

\* intervalMonths
IntervalMonths(frequency) ==
    IF frequency = "AT_MATURITY" THEN 0
    ELSE IF frequency = "ANNUALLY" THEN 12
    ELSE IF frequency = "SEMI_ANNUALLY" THEN 6
    ELSE IF frequency = "QUARTERLY" THEN 3
    ELSE 1

\* curr > new Date() ? FORECAST : ACTUAL
InterestStatus(curr, clock) ==
    IF GetTime(curr) > GetTime(clock) THEN "FORECAST" ELSE "ACTUAL"

\* mutant: the id of an interest event does not carry its date
InterestEvent_Undated(debt, curr, effectiveRate, intervalMonths, failRate, clock) ==
    LET interestAmount ==
            RNeg(RMul(RMul(debt.principal, RDiv(effectiveRate, Num(100))),
                      Rat(intervalMonths, 12)))
        principalFactor == PrincipalFactor(debt.status = "PLANNED", failRate)
        finalInterest == RMul(interestAmount, principalFactor)
    IN  [id           |-> TxId("int", debt.id, NoDate),
         date         |-> curr,
         entity       |-> debt.entity,
         category     |-> "FINANCING",
         description  |-> Descr("[interest]", ToFixed2(effectiveRate)),
         amountHKD    |-> Slot(debt, "HKD", finalInterest),
         amountRMB    |-> Slot(debt, "RMB", finalInterest),
         amountUSD    |-> Slot(debt, "USD", finalInterest),
         status       |-> InterestStatus(curr, clock),
         linkedDebtId |-> debt.id]

\* the body of the while loop: one interest event dated curr
InterestEvent(debt, curr, effectiveRate, intervalMonths, failRate, clock) ==
    LET interestAmount ==
            RNeg(RMul(RMul(debt.principal, RDiv(effectiveRate, Num(100))),
                      Rat(intervalMonths, 12)))
        principalFactor == PrincipalFactor(debt.status = "PLANNED", failRate)
        finalInterest == RMul(interestAmount, principalFactor)
    IN  [id           |-> TxId("int", debt.id, curr),
         date         |-> curr,
         entity       |-> debt.entity,
         category     |-> "FINANCING",
         description  |-> Descr("[interest]", ToFixed2(effectiveRate)),
         amountHKD    |-> Slot(debt, "HKD", finalInterest),
         amountRMB    |-> Slot(debt, "RMB", finalInterest),
         amountUSD    |-> Slot(debt, "USD", finalInterest),
         status       |-> InterestStatus(curr, clock),
         linkedDebtId |-> debt.id]

\* while (curr <= end) { push; curr.setMonth(curr.getMonth() + intervalMonths) }
RECURSIVE InterestLoop(_, _, _, _, _, _)
InterestLoop(debt, curr, effectiveRate, intervalMonths, failRate, clock) ==
    LET Iter[c \in {curr}] ==
            IF GetTime(c) <= GetTime(debt.endDate)
            THEN << InterestEvent(debt, c, effectiveRate, intervalMonths, failRate, clock) >>
                 \o InterestLoop(debt, SetMonth(c, intervalMonths), effectiveRate,
                                 intervalMonths, failRate, clock)
            ELSE << >>
    IN  Iter[curr]

\* mutant: do { push; step } while (curr <= end): the first event is pushed
\* before the dates are compared
InterestEvents_DoWhile(debt, failRate, shibor, hibor, sofr, clock) ==
    LET stressRateAdd == StressRateAdd(debt.benchmark, shibor, hibor, sofr)
        effectiveRate == RAdd(debt.baseRate, stressRateAdd)
        intervalMonths == IntervalMonths(debt.frequency)
    IN  IF intervalMonths > 0
        THEN << InterestEvent(debt, SetMonth(debt.startDate, intervalMonths), effectiveRate,
                              intervalMonths, failRate, clock) >>
             \o InterestLoop(debt, SetMonth(SetMonth(debt.startDate, intervalMonths), intervalMonths),
                             effectiveRate, intervalMonths, failRate, clock)
        ELSE << >>

\* 2. Interest Payments
InterestEvents(debt, failRate, shibor, hibor, sofr, clock) ==
    LET stressRateAdd == StressRateAdd(debt.benchmark, shibor, hibor, sofr)
        effectiveRate == RAdd(debt.baseRate, stressRateAdd)
        intervalMonths == IntervalMonths(debt.frequency)
    IN  IF intervalMonths > 0
        THEN InterestLoop(debt, SetMonth(debt.startDate, intervalMonths),
                          effectiveRate, intervalMonths, failRate, clock)
        ELSE << >>

\* mutant: the status of the repayment follows the clock, as that of an
\* interest event does
RepaymentEvent_StatusByClock(debt, failRate) ==
    LET principalFactor == PrincipalFactor(debt.status = "PLANNED", failRate)
        amount == RMul(RNeg(debt.principal), principalFactor)
    IN  [id           |-> TxId("princ-out", debt.id, NoDate),
         date         |-> debt.endDate,
         entity       |-> debt.entity,
         category     |-> "FINANCING",
         description  |-> Descr("[repay]", 0),
         amountHKD    |-> Slot(debt, "HKD", amount),
         amountRMB    |-> Slot(debt, "RMB", amount),
         amountUSD    |-> Slot(debt, "USD", amount),
         status       |-> InterestStatus(debt.endDate, now),
         linkedDebtId |-> debt.id]

\* 3. Principal Repayment
RepaymentEvent(debt, failRate) ==
    LET principalFactor == PrincipalFactor(debt.status = "PLANNED", failRate)
        amount == RMul(RNeg(debt.principal), principalFactor)
    IN  [id           |-> TxId("princ-out", debt.id, NoDate),
         date         |-> debt.endDate,
         entity       |-> debt.entity,
         category     |-> "FINANCING",
         description  |-> Descr("[repay]", 0),
         amountHKD    |-> Slot(debt, "HKD", amount),
         amountRMB    |-> Slot(debt, "RMB", amount),
         amountUSD    |-> Slot(debt, "USD", amount),
         status       |-> "FORECAST",
         linkedDebtId |-> debt.id]

\* the body of debts.forEach: the events pushed for one debt
DebtEvents(debt, failRate, shibor, hibor, sofr, clock) ==
    DrawEvents(debt, failRate)
    \o InterestEvents(debt, failRate, shibor, hibor, sofr, clock)
    \o << RepaymentEvent(debt, failRate) >>

\* debts.forEach(...); return generated
RECURSIVE Generate(_, _, _, _, _, _)
Generate(ds, failRate, shibor, hibor, sofr, clock) ==
    IF ds = << >> THEN << >>
    ELSE DebtEvents(Head(ds), failRate, shibor, hibor, sofr, clock)
         \o Generate(Tail(ds), failRate, shibor, hibor, sofr, clock)

-----------------------------------------------------------------------------
(* App state: initial values and the values the model draws inputs from *)

\* DEFAULT_RATES
DEFAULT_RATES == [HKD_TO_RMB |-> Rat(92, 100), USD_TO_RMB |-> Rat(723, 100)]

\* INITIAL_BALANCES
INITIAL_BALANCES ==
    [PROPERTY   |-> [HKD |-> Rat(1550, 100), RMB |-> Num(25), USD |-> Num(8)],
     ENTERPRISE |-> [HKD |-> Num(45), RMB |-> Num(30), USD |-> Num(12)]]

Entities == {"PROPERTY", "ENTERPRISE"}
Currencies == {"HKD", "RMB", "USD"}
Benchmarks == {"SHIBOR", "HIBOR", "SOFR", "FIXED"}
Frequencies == {"MONTHLY", "QUARTERLY", "SEMI_ANNUALLY", "ANNUALLY", "AT_MATURITY"}
Statuses == {"PLANNED", "ACTIVE", "SETTLED"}

\* a Debt (the fields the engine reads)
Debt(id, entity, currency, principal, baseRate, benchmark, startDate, endDate, frequency, status) ==
    [id |-> id, entity |-> entity, currency |-> currency, principal |-> principal,
     baseRate |-> baseRate, benchmark |-> benchmark, startDate |-> startDate,
     endDate |-> endDate, frequency |-> frequency, status |-> status]

\* values of the financing-failure slider and of the shock sliders that the
\* generator specification moves through
GenFailRates == {0, 30, 50, 100}
GenShocks == {-200, 0, 100}

GenStartDates == {Date(2024, 1, 1), Date(2024, 1, 31)}
GenEndDates == {Date(2024, 7, 1), Date(2024, 4, 30), Date(2023, 12, 15)}
GenClocks == {Date(2024, 3, 15), Date(2024, 5, 1)}

\* the debts the generator specification starts from: every status, frequency
\* and date range on one instrument, every benchmark and currency on another
GenDebts ==
    { Debt(1, "PROPERTY", "RMB", Num(10), Num(4), "SHIBOR", sd, ed, fr, st) :
        sd \in GenStartDates, ed \in GenEndDates, fr \in Frequencies, st \in Statuses }
    \cup
    { Debt(1, "ENTERPRISE", cu, Num(10), Num(4), bm, Date(2024, 1, 1),
           Date(2024, 7, 1), "QUARTERLY", st) :
        cu \in Currencies, bm \in Benchmarks, st \in {"PLANNED", "ACTIVE"} }

\* a second instrument, for the lists of two debts
GenSecondDebts ==
    { Debt(2, "ENTERPRISE", "HKD", Num(20), Rat(45, 10), "HIBOR", Date(2024, 1, 31),
           Date(2024, 4, 30), fr, st) :
        fr \in {"MONTHLY", "AT_MATURITY"}, st \in {"PLANNED", "ACTIVE"} }

-----------------------------------------------------------------------------
(* The memo of debtTransactions: useMemo(..., [debts, financingFailRate,
   shiborShock, hiborShock, sofrShock]) *)

\* mutant: the memoised value is kept although a dependency has changed
Regenerate_Stale(ds, failRate, shibor, hibor, sofr) ==
    UNCHANGED <<debtTransactions, generatedAt>>

\* a dependency has changed: the generator runs and reads the clock
Regenerate(ds, failRate, shibor, hibor, sofr) ==
    /\ debtTransactions' = Generate(ds, failRate, shibor, hibor, sofr, now)
    /\ generatedAt' = now

\* no dependency has changed: the memoised value is kept
Memoised == UNCHANGED <<debtTransactions, generatedAt>>

-----------------------------------------------------------------------------
(* Scenario controller: the slider handlers *)

\* RangeInput onChange of the financing-failure slider
SetFinancingFailRate(v) ==
    /\ financingFailRate' = v
    /\ scenarioMode' = "BASE"
    /\ IF v = financingFailRate THEN Memoised ELSE Regenerate(debts, v, shiborShock, hiborShock, sofrShock)
    /\ UNCHANGED <<debts, manualTransactions, shiborShock, hiborShock, sofrShock,
                   simRates, baseCurrency, entityFilter, searchTerm, chartFilter,
                   now, tzWest, cloudVars>>

\* RangeInput onChange of the SHIBOR slider
SetShiborShock(v) ==
    /\ shiborShock' = v
    /\ scenarioMode' = "BASE"
    /\ IF v = shiborShock THEN Memoised ELSE Regenerate(debts, financingFailRate, v, hiborShock, sofrShock)
    /\ UNCHANGED <<debts, manualTransactions, financingFailRate, hiborShock, sofrShock,
                   simRates, baseCurrency, entityFilter, searchTerm, chartFilter,
                   now, tzWest, cloudVars>>

\* RangeInput onChange of the HIBOR slider
SetHiborShock(v) ==
    /\ hiborShock' = v
    /\ scenarioMode' = "BASE"
    /\ IF v = hiborShock THEN Memoised ELSE Regenerate(debts, financingFailRate, shiborShock, v, sofrShock)
    /\ UNCHANGED <<debts, manualTransactions, financingFailRate, shiborShock, sofrShock,
                   simRates, baseCurrency, entityFilter, searchTerm, chartFilter,
                   now, tzWest, cloudVars>>

\* RangeInput onChange of the SOFR slider
SetSofrShock(v) ==
    /\ sofrShock' = v
    /\ scenarioMode' = "BASE"
    /\ IF v = sofrShock THEN Memoised ELSE Regenerate(debts, financingFailRate, shiborShock, hiborShock, v)
    /\ UNCHANGED <<debts, manualTransactions, financingFailRate, shiborShock, hiborShock,
                   simRates, baseCurrency, entityFilter, searchTerm, chartFilter,
                   now, tzWest, cloudVars>>

-----------------------------------------------------------------------------
(* Generator specification: any debt of GenDebts under every slider setting *)

GenInit ==
    /\ debts \in { << d >> : d \in GenDebts }
                 \cup { << d, e >> : d \in { x \in GenDebts : x.endDate \in {Date(2024, 4, 30), Date(2023, 12, 15)}
                                                       /\ x.startDate = Date(2024, 1, 1)
                                                       /\ x.frequency = "QUARTERLY" },
                                     e \in GenSecondDebts }
    /\ manualTransactions = << >>
    /\ financingFailRate = 0
    /\ shiborShock = 0
    /\ hiborShock = 0
    /\ sofrShock = 0
    /\ simRates = DEFAULT_RATES
    /\ scenarioMode = "BASE"
    /\ baseCurrency = "RMB"
    /\ entityFilter = "ALL"
    /\ searchTerm = NoSearch
    /\ chartFilter = "ALL"
    /\ now \in GenClocks
    /\ tzWest \in BOOLEAN
    /\ LocalOnly
    /\ debtTransactions = Generate(debts, 0, 0, 0, 0, now)
    /\ generatedAt = now

GenNext ==
    \/ \E v \in GenFailRates : SetFinancingFailRate(v)
    \/ \E v \in GenShocks : SetShiborShock(v)
    \/ \E v \in GenShocks : SetHiborShock(v)
    \/ \E v \in GenShocks : SetSofrShock(v)

GenSpec == GenInit /\ [][GenNext]_vars

-----------------------------------------------------------------------------
(* Ledger merger: useMemo(allTransactions) *)

\* mutant: an element is inserted before the elements of the same date
InsertByDate_BeforeEqual(sorted, e) ==
    LET k == Cardinality({ i \in 1..Len(sorted) : GetTime(sorted[i].date) < GetTime(e.date) })
    IN  SubSeq(sorted, 1, k) \o << e >> \o SubSeq(sorted, k + 1, Len(sorted))

\* one insertion of the stable sort: e goes after every element a with
\* comparator(a, e) = getTime(a.date) - getTime(e.date) <= 0
InsertByDate(sorted, e) ==
    LET k == Cardinality({ i \in 1..Len(sorted) : GetTime(sorted[i].date) - GetTime(e.date) <= 0 })
    IN  SubSeq(sorted, 1, k) \o << e >> \o SubSeq(sorted, k + 1, Len(sorted))

\* the first n elements of sq, sorted
RECURSIVE SortPrefix(_, _)
SortPrefix(sq, n) ==
    IF n = 0 THEN << >>
    ELSE CHOOSE r \in { InsertByDate(s, sq[n]) : s \in { SortPrefix(sq, n - 1) } } : TRUE

\* mutant: the comparator is reversed (b - a), the result is in descending order
SortByDate_Descending(sq) ==
    LET asc == SortPrefix(sq, Len(sq))
    IN  [i \in 1..Len(sq) |-> asc[Len(sq) + 1 - i]]

\* [...].sort((a, b) => new Date(a.date).getTime() - new Date(b.date).getTime()):
\* Array.prototype.sort is stable (ECMAScript 2019)
SortByDate(sq) == SortPrefix(sq, Len(sq))

\* [...manualTransactions, ...debtTransactions].sort(...)
allTransactions == SortByDate(manualTransactions \o debtTransactions)

-----------------------------------------------------------------------------
(* App handlers *)

\* a manual Transaction
Transaction(id, date, entity, category, text, hkd, rmb, usd, status) ==
    [id |-> TxId("manual", id, NoDate), date |-> date, entity |-> entity,
     category |-> category, description |-> Descr(text, 0),
     amountHKD |-> hkd, amountRMB |-> rmb, amountUSD |-> usd,
     status |-> status, linkedDebtId |-> NoDebt]

\* generateId() / Math.random().toString(36).substr(2, 9): an id not in use;
\* ids are only compared for equality, so the least unused number stands for
\* it (a collision of two random ids is outside the model)
GenerateId(used) == CHOOSE k \in 1..(Cardinality(used) + 1) :
                        k \notin used /\ \A j \in 1..(k - 1) : j \in used

DebtIds == { debts[i].id : i \in 1..Len(debts) }
ManualIds == { manualTransactions[i].id.ref : i \in 1..Len(manualTransactions) }

\* handleSaveDebt, called by DebtModal.handleSubmit with a fresh id
HandleSaveDebt(d) ==
    /\ debts' = Append(debts, [d EXCEPT !.id = GenerateId(DebtIds)])
    /\ Regenerate(debts', financingFailRate, shiborShock, hiborShock, sofrShock)
    /\ UNCHANGED <<manualTransactions, financingFailRate, shiborShock, hiborShock,
                   sofrShock, simRates, scenarioMode, baseCurrency, entityFilter,
                   searchTerm, chartFilter, now, tzWest, cloudVars>>

\* handleUpdateDebt: prev.map(d => d.id === debt.id ? debt : d)
HandleUpdateDebt(d) ==
    /\ d.id \in DebtIds
    /\ debts' = [i \in 1..Len(debts) |-> IF debts[i].id = d.id THEN d ELSE debts[i]]
    /\ Regenerate(debts', financingFailRate, shiborShock, hiborShock, sofrShock)
    /\ UNCHANGED <<manualTransactions, financingFailRate, shiborShock, hiborShock,
                   sofrShock, simRates, scenarioMode, baseCurrency, entityFilter,
                   searchTerm, chartFilter, now, tzWest, cloudVars>>

\* handleDeleteDebt, confirmed: prev.filter(d => d.id !== id)
HandleDeleteDebt(id) ==
    /\ id \in DebtIds
    /\ debts' = SelectSeq(debts, LAMBDA d : d.id # id)
    /\ Regenerate(debts', financingFailRate, shiborShock, hiborShock, sofrShock)
    /\ UNCHANGED <<manualTransactions, financingFailRate, shiborShock, hiborShock,
                   sofrShock, simRates, scenarioMode, baseCurrency, entityFilter,
                   searchTerm, chartFilter, now, tzWest, cloudVars>>

\* handleSaveTransaction, not in edit mode: [...prev, transaction] with a fresh id
HandleSaveTransactionAdd(t) ==
    /\ manualTransactions' =
          Append(manualTransactions,
                 [t EXCEPT !.id = TxId("manual", GenerateId(ManualIds), NoDate)])
    /\ UNCHANGED <<debts, financingFailRate, shiborShock, hiborShock, sofrShock,
                   simRates, scenarioMode, baseCurrency, entityFilter, searchTerm,
                   chartFilter, debtTransactions, generatedAt, now, tzWest, cloudVars>>

\* handleSaveTransaction in edit mode: prev.map(t => t.id === transaction.id ? transaction : t)
HandleSaveTransactionEdit(id, t) ==
    /\ id \in ManualIds
    /\ manualTransactions' =
          [i \in 1..Len(manualTransactions) |->
              IF manualTransactions[i].id.ref = id
              THEN [t EXCEPT !.id = TxId("manual", id, NoDate)]
              ELSE manualTransactions[i]]
    /\ UNCHANGED <<debts, financingFailRate, shiborShock, hiborShock, sofrShock,
                   simRates, scenarioMode, baseCurrency, entityFilter, searchTerm,
                   chartFilter, debtTransactions, generatedAt, now, tzWest, cloudVars>>

\* handleDelete, confirmed: prev.filter(t => t.id !== id)
HandleDelete(id) ==
    /\ id \in ManualIds
    /\ manualTransactions' = SelectSeq(manualTransactions, LAMBDA t : t.id.ref # id)
    /\ UNCHANGED <<debts, financingFailRate, shiborShock, hiborShock, sofrShock,
                   simRates, scenarioMode, baseCurrency, entityFilter, searchTerm,
                   chartFilter, debtTransactions, generatedAt, now, tzWest, cloudVars>>

\* the wall clock advances; nothing is re-rendered by it
Tick(later) ==
    /\ GetTime(later) > GetTime(now)
    /\ now' = later
    /\ UNCHANGED <<debts, manualTransactions, financingFailRate, shiborShock,
                   hiborShock, sofrShock, simRates, scenarioMode, baseCurrency,
                   entityFilter, searchTerm, chartFilter, debtTransactions, generatedAt,
                   tzWest, cloudVars>>

-----------------------------------------------------------------------------
(* App specification: the operator adds, edits and deletes debts and manual
   entries, moves the failure-rate slider, and time passes *)

MaxDebts == 2
MaxManual == 2

AppFailRates == {0, 50}
AppClocks == {Date(2024, 3, 15), Date(2024, 5, 1)}

AppDebts ==
    { Debt(0, "PROPERTY", "RMB", Num(10), Num(4), "SHIBOR", Date(2024, 1, 1),
           Date(2024, 7, 1), "QUARTERLY", "PLANNED"),
      Debt(0, "ENTERPRISE", "HKD", Num(20), Rat(45, 10), "HIBOR", Date(2024, 1, 31),
           Date(2024, 4, 30), "MONTHLY", "ACTIVE") }

AppManual ==
    { Transaction(0, Date(2024, 4, 1), "ENTERPRISE", "INTERNAL", "transfer", Zero, Num(-5), Zero, "FORECAST"),
      Transaction(0, Date(2024, 1, 1), "ENTERPRISE", "INVESTING", "dividend", Num(5), Zero, Num(1), "ACTUAL") }

Init ==
    /\ debts = << >>
    /\ manualTransactions = << >>
    /\ financingFailRate = 0
    /\ shiborShock = 0
    /\ hiborShock = 0
    /\ sofrShock = 0
    /\ simRates = DEFAULT_RATES
    /\ scenarioMode = "BASE"
    /\ baseCurrency = "RMB"
    /\ entityFilter = "ALL"
    /\ searchTerm = NoSearch
    /\ chartFilter = "ALL"
    /\ now = Date(2024, 3, 15)
    /\ tzWest = FALSE
    /\ LocalOnly
    /\ debtTransactions = << >>
    /\ generatedAt = now

Next ==
    \/ \E d \in AppDebts : Len(debts) < MaxDebts /\ HandleSaveDebt(d)
    \/ \E d \in AppDebts, id \in DebtIds : HandleUpdateDebt([d EXCEPT !.id = id])
    \/ \E id \in DebtIds : HandleDeleteDebt(id)
    \/ \E t \in AppManual : Len(manualTransactions) < MaxManual /\ HandleSaveTransactionAdd(t)
    \/ \E t \in AppManual, id \in ManualIds : HandleSaveTransactionEdit(id, t)
    \/ \E id \in ManualIds : HandleDelete(id)
    \/ \E v \in AppFailRates : SetFinancingFailRate(v)
    \/ \E later \in AppClocks : Tick(later)

Spec == Init /\ [][Next]_vars

-----------------------------------------------------------------------------
(* Sums and maps used by the views *)

\* acc += x over sq[1..n], from 0
RECURSIVE RSum(_, _)
RSum(sq, n) ==
    IF n = 0 THEN Zero
    ELSE CHOOSE r \in { RAdd(a, sq[n]) : a \in { RSum(sq, n - 1) } } : TRUE

\* an empty object {}
EmptyMap == [k \in { } |-> Zero]

\* Object.values(startBalances), in insertion order
StartBalanceValues == << INITIAL_BALANCES.PROPERTY, INITIAL_BALANCES.ENTERPRISE >>

-----------------------------------------------------------------------------
(* FinancialTable: the ledger table *)

\* getTotalInBase
getTotalInBase(h, r, u) ==
    LET valInRMB == RAdd(RAdd(RMul(h, simRates.HKD_TO_RMB), r), RMul(u, simRates.USD_TO_RMB))
    IN  IF baseCurrency = "RMB" THEN valInRMB
        ELSE IF baseCurrency = "HKD" THEN RDiv(valInRMB, simRates.HKD_TO_RMB)
        ELSE IF baseCurrency = "USD" THEN RDiv(valInRMB, simRates.USD_TO_RMB)
        ELSE valInRMB

\* matchEntity
MatchEntity(t) == entityFilter = "ALL" \/ t.entity = entityFilter

\* matchSearch: the term is empty, or the description, the RMB amount or the
\* date contains it.  A term "YYYY-MM" occurs in a date only as its first seven
\* characters; no description of the model and no decimal number contains one
MatchSearch(t) == searchTerm = NoSearch \/ MonthKey(t.date) = searchTerm

\* processed: the filtered transactions, sorted by date
Processed(transactions) ==
    SortByDate(SelectSeq(transactions, LAMBDA t : MatchEntity(t) /\ MatchSearch(t)))

\* startBase (initialBalanceBase)
StartBase ==
    IF entityFilter = "ALL"
    THEN RSum([i \in 1..Len(StartBalanceValues) |->
                  getTotalInBase(StartBalanceValues[i].HKD, StartBalanceValues[i].RMB,
                                 StartBalanceValues[i].USD)], Len(StartBalanceValues))
    ELSE getTotalInBase(INITIAL_BALANCES[entityFilter].HKD, INITIAL_BALANCES[entityFilter].RMB,
                        INITIAL_BALANCES[entityFilter].USD)

\* totalInBase of a transaction
TotalInBase(t) == getTotalInBase(t.amountHKD, t.amountRMB, t.amountUSD)

\* currentRunningBal after the first n transactions of proc
RECURSIVE CurrentRunningBal(_, _)
CurrentRunningBal(proc, n) ==
    IF n = 0 THEN StartBase
    ELSE CHOOSE r \in { RAdd(a, TotalInBase(proc[n])) : a \in { CurrentRunningBal(proc, n - 1) } } : TRUE

\* the rows pushed to groups[monthKey].trans, over all months in processing order
TableRowsOf(proc) ==
    [i \in 1..Len(proc) |->
        [t |-> proc[i], runningBal |-> CurrentRunningBal(proc, i), totalBase |-> TotalInBase(proc[i])]]

TableRows(transactions) ==
    CHOOSE r \in { TableRowsOf(proc) : proc \in { Processed(transactions) } } : TRUE

\* groups: month key -> { month, trans, monthEndBal, netFlow }
GroupsOf(rows) ==
    [mk \in { MonthKey(rows[i].t.date) : i \in 1..Len(rows) } |->
        LET trans == SelectSeq(rows, LAMBDA row : MonthKey(row.t.date) = mk)
        IN  [month |-> mk,
             trans |-> trans,
             monthEndBal |-> trans[Len(trans)].runningBal,
             netFlow |-> RSum([i \in 1..Len(trans) |-> trans[i].totalBase], Len(trans))]]

\* groupedData
groupedData(transactions) ==
    CHOOSE r \in { GroupsOf(rows) : rows \in { TableRows(transactions) } } : TRUE

-----------------------------------------------------------------------------
(* FundCalendar: daily balances and the month grid *)

\* setDate(getDate() - 90), setDate(getDate() + 500)
LookbackDays == 90
HorizonDays == 500

\* convert
convert(hkd, rmb, usd) ==
    LET valInRMB == RAdd(RAdd(RMul(hkd, simRates.HKD_TO_RMB), rmb), RMul(usd, simRates.USD_TO_RMB))
    IN  IF baseCurrency = "RMB" THEN valInRMB
        ELSE IF baseCurrency = "HKD" THEN RDiv(valInRMB, simRates.HKD_TO_RMB)
        ELSE IF baseCurrency = "USD" THEN RDiv(valInRMB, simRates.USD_TO_RMB)
        ELSE valInRMB

\* currentTotal: the converted starting balances of all entities
currentTotal ==
    RSum([i \in 1..Len(StartBalanceValues) |->
             convert(StartBalanceValues[i].HKD, StartBalanceValues[i].RMB,
                     StartBalanceValues[i].USD)], Len(StartBalanceValues))

\* mutant: the category is not looked at
CalendarAmount_AllCategories(t) == convert(t.amountHKD, t.amountRMB, t.amountUSD)

\* if (t.category !== INTERNAL) balance += convert(...): what an event adds to
\* the calendar's figures
CalendarAmount(t) ==
    IF t.category # "INTERNAL" THEN convert(t.amountHKD, t.amountRMB, t.amountUSD) ELSE Zero

\* the sum over the transactions dated dateStr of what they add
DayFlow(transactions, dateStr) ==
    LET dayTrans == SelectSeq(transactions, LAMBDA t : t.date = dateStr)
    IN  RSum([i \in 1..Len(dayTrans) |-> CalendarAmount(dayTrans[i])], Len(dayTrans))

\* the events with the day number of their date and what they add
DayAmounts(sortedAll) ==
    [i \in 1..Len(sortedAll) |->
        [day |-> DayNumber(sortedAll[i].date), amount |-> CalendarAmount(sortedAll[i])]]

\* runningBalance after the events of the day numbered z (t.date === dateStr)
AfterDay(dayAmounts, z, runningBalance) ==
    LET daysTrans == SelectSeq(dayAmounts, LAMBDA e : e.day = z)
    IN  IF Len(daysTrans) = 0 THEN runningBalance
        ELSE RAdd(runningBalance, RSum([i \in 1..Len(daysTrans) |-> daysTrans[i].amount], Len(daysTrans)))

\* for (d = startDate; d <= endDate; d.setDate(d.getDate() + 1)) { runningBalance
\* += the day's amounts; tempMap[dateStr] = runningBalance }, over the days
\* numbered lo..hi: the loop over lo..mid followed by the loop over mid+1..hi.
\* The result is the sequence of the values written to tempMap, one per day
RECURSIVE DailyLoop(_, _, _, _)
DailyLoop(dayAmounts, lo, hi, runningBalance) ==
    IF lo > hi THEN << >>
    ELSE IF lo = hi THEN << AfterDay(dayAmounts, lo, runningBalance) >>
    ELSE CHOOSE r \in
            { first \o DailyLoop(dayAmounts, ((lo + hi) \div 2) + 1, hi, first[Len(first)]) :
                first \in { DailyLoop(dayAmounts, lo, (lo + hi) \div 2, runningBalance) } } : TRUE

\* dailyBalances: the map date -> balance, held as the day number of its first
\* key and the balances of the consecutive days from that one on ({} has none)
dailyBalances(transactions) ==
    IF Len(transactions) = 0 THEN [startDate |-> 0, balances |-> << >>]
    ELSE CHOOSE r \in
            { [startDate |-> w.startDate,
               balances |-> DailyLoop(w.sortedAll, w.startDate, w.endDate, w.runningBalance)] :
                w \in { [sortedAll |-> DayAmounts(SortByDate(transactions)),
                         startDate |-> DayNumber(now) - LookbackDays,
                         endDate |-> DayNumber(now) + HorizonDays,
                         runningBalance |-> currentTotal] } } : TRUE

\* dateStr is a key of the map
HasBalance(balanceMap, dateStr) ==
    (DayNumber(dateStr) - balanceMap.startDate + 1) \in 1..Len(balanceMap.balances)

\* dailyBalances[dateStr] || 0
BalanceOn(balanceMap, dateStr) ==
    IF HasBalance(balanceMap, dateStr)
    THEN balanceMap.balances[DayNumber(dateStr) - balanceMap.startDate + 1]
    ELSE Zero

\* one day cell of calendarGrid
CalendarCell(transactions, balanceMap, dateStr) ==
    [day |-> dateStr.d,
     dateStr |-> dateStr,
     netFlow |-> DayFlow(transactions, dateStr),
     endBalance |-> BalanceOn(balanceMap, dateStr),
     hasData |-> \E i \in 1..Len(transactions) : transactions[i].date = dateStr]

\* calendarGrid for the page of (year, month), reading the memoised
\* dailyBalances: its day cells
calendarGrid(transactions, balanceMap, year, month) ==
    [i \in 1..DaysInMonth(year, month) |->
        CalendarCell(transactions, balanceMap, Date(year, month, i))]

-----------------------------------------------------------------------------
(* Dashboard: the monthly chart data *)

\* mutant: the HKD and USD cases divide by the other currency's rate
convertToBase_Swapped(hkd, rmb, usd) ==
    LET totalInRMB == RAdd(RAdd(RMul(hkd, simRates.HKD_TO_RMB), rmb), RMul(usd, simRates.USD_TO_RMB))
    IN  IF baseCurrency = "RMB" THEN totalInRMB
        ELSE IF baseCurrency = "HKD" THEN RDiv(totalInRMB, simRates.USD_TO_RMB)
        ELSE IF baseCurrency = "USD" THEN RDiv(totalInRMB, simRates.HKD_TO_RMB)
        ELSE totalInRMB

\* convertToBase
convertToBase(hkd, rmb, usd) ==
    LET totalInRMB == RAdd(RAdd(RMul(hkd, simRates.HKD_TO_RMB), rmb), RMul(usd, simRates.USD_TO_RMB))
    IN  IF baseCurrency = "RMB" THEN totalInRMB
        ELSE IF baseCurrency = "HKD" THEN RDiv(totalInRMB, simRates.HKD_TO_RMB)
        ELSE IF baseCurrency = "USD" THEN RDiv(totalInRMB, simRates.USD_TO_RMB)
        ELSE totalInRMB

\* parseFloat(x.toFixed(2))
Round2(x) == Rat(ToFixed2(x), 100)

\* the month bucket a first event of a month creates
NewBucket(month) ==
    [month |-> month, inflow |-> Zero, outflow |-> Zero, net |-> Zero, propBalance |-> Zero,
     entBalance |-> Zero, totalBalance |-> Zero, filteredBalance |-> Zero]

\* the balances move only with the events that the flows count
ChartStep_BalanceOfCounted(acc, t) ==
    LET month == MonthKey(t.date)
        bucket == IF month \in DOMAIN acc.dataMap THEN acc.dataMap[month] ELSE NewBucket(month)
        valBase == convertToBase(t.amountHKD, t.amountRMB, t.amountUSD)
        counted == t.category # "INTERNAL" /\ (chartFilter = "ALL" \/ t.entity = chartFilter)
        balances == IF t.category = "INTERNAL" THEN acc.balances
                    ELSE [acc.balances EXCEPT ![t.entity] =
                            [HKD |-> RAdd(@.HKD, t.amountHKD), RMB |-> RAdd(@.RMB, t.amountRMB),
                             USD |-> RAdd(@.USD, t.amountUSD)]]
        propTotal == convertToBase(balances.PROPERTY.HKD, balances.PROPERTY.RMB, balances.PROPERTY.USD)
        entTotal == convertToBase(balances.ENTERPRISE.HKD, balances.ENTERPRISE.RMB, balances.ENTERPRISE.USD)
        updated ==
            [month |-> month,
             inflow |-> IF counted /\ RPos(valBase) THEN RAdd(bucket.inflow, valBase) ELSE bucket.inflow,
             outflow |-> IF counted /\ ~RPos(valBase) THEN RAdd(bucket.outflow, RAbs(valBase))
                         ELSE bucket.outflow,
             net |-> IF counted THEN RAdd(bucket.net, valBase) ELSE bucket.net,
             propBalance |-> Round2(propTotal),
             entBalance |-> Round2(entTotal),
             totalBalance |-> Round2(RAdd(propTotal, entTotal)),
             filteredBalance |-> IF chartFilter = "ALL" THEN Round2(RAdd(propTotal, entTotal))
                                 ELSE IF chartFilter = "PROPERTY" THEN Round2(propTotal)
                                 ELSE Round2(entTotal)]
    IN  [dataMap |-> (month :> updated) @@ acc.dataMap, balances |-> balances]

\* the body of sortedTrans.forEach: acc is [dataMap, balances]
ChartStep(acc, t) ==
    LET month == MonthKey(t.date)
        bucket == IF month \in DOMAIN acc.dataMap THEN acc.dataMap[month] ELSE NewBucket(month)
        valBase == convertToBase(t.amountHKD, t.amountRMB, t.amountUSD)
        counted == t.category # "INTERNAL" /\ (chartFilter = "ALL" \/ t.entity = chartFilter)
        balances == [acc.balances EXCEPT ![t.entity] =
                        [HKD |-> RAdd(@.HKD, t.amountHKD), RMB |-> RAdd(@.RMB, t.amountRMB),
                         USD |-> RAdd(@.USD, t.amountUSD)]]
        propTotal == convertToBase(balances.PROPERTY.HKD, balances.PROPERTY.RMB, balances.PROPERTY.USD)
        entTotal == convertToBase(balances.ENTERPRISE.HKD, balances.ENTERPRISE.RMB, balances.ENTERPRISE.USD)
        updated ==
            [month |-> month,
             inflow |-> IF counted /\ RPos(valBase) THEN RAdd(bucket.inflow, valBase) ELSE bucket.inflow,
             outflow |-> IF counted /\ ~RPos(valBase) THEN RAdd(bucket.outflow, RAbs(valBase))
                         ELSE bucket.outflow,
             net |-> IF counted THEN RAdd(bucket.net, valBase) ELSE bucket.net,
             propBalance |-> Round2(propTotal),
             entBalance |-> Round2(entTotal),
             totalBalance |-> Round2(RAdd(propTotal, entTotal)),
             filteredBalance |-> IF chartFilter = "ALL" THEN Round2(RAdd(propTotal, entTotal))
                                 ELSE IF chartFilter = "PROPERTY" THEN Round2(propTotal)
                                 ELSE Round2(entTotal)]
    IN  [dataMap |-> (month :> updated) @@ acc.dataMap, balances |-> balances]

\* sortedTrans.forEach over the first n events
RECURSIVE ChartFold(_, _)
ChartFold(sortedTrans, n) ==
    IF n = 0 THEN [dataMap |-> EmptyMap, balances |-> INITIAL_BALANCES]
    ELSE CHOOSE r \in { ChartStep(acc, t) : acc \in { ChartFold(sortedTrans, n - 1) },
                                            t \in { sortedTrans[n] } } : TRUE

\* chartData: month -> bucket
chartData(transactions) ==
    CHOOSE r \in { ChartFold(sortedTrans, Len(sortedTrans)).dataMap :
                     sortedTrans \in { SortByDate(transactions) } } : TRUE

-----------------------------------------------------------------------------
(* analyzeFinancialData: the monthly summary sent for AI analysis *)

\* getVal
getVal(hkd, rmb, usd) ==
    LET valRMB == RAdd(RAdd(RMul(hkd, simRates.HKD_TO_RMB), rmb), RMul(usd, simRates.USD_TO_RMB))
    IN  IF baseCurrency = "RMB" THEN valRMB
        ELSE IF baseCurrency = "HKD" THEN RDiv(valRMB, simRates.HKD_TO_RMB)
        ELSE IF baseCurrency = "USD" THEN RDiv(valRMB, simRates.USD_TO_RMB)
        ELSE valRMB

\* the body of sorted.forEach: acc is monthlyData
MonthlyStep(acc, t) ==
    LET month == MonthKey(t.date)
        entry == IF month \in DOMAIN acc THEN acc[month]
                 ELSE [inflow |-> Zero, outflow |-> Zero, net |-> Zero, notes |-> << >>]
        val == getVal(t.amountHKD, t.amountRMB, t.amountUSD)
        updated ==
            [inflow |-> IF RPos(val) THEN RAdd(entry.inflow, val) ELSE entry.inflow,
             outflow |-> IF RPos(val) THEN entry.outflow ELSE RAdd(entry.outflow, RAbs(val)),
             net |-> RAdd(entry.net, val),
             notes |-> IF RPos(RAdd(RAbs(val), Num(-5)))
                       THEN Append(entry.notes, << t.entity, t.description, ToFixed(val, 10) >>)
                       ELSE entry.notes]
    IN  (month :> updated) @@ acc

\* sorted.forEach over the first n events
RECURSIVE MonthlyFold(_, _)
MonthlyFold(sorted, n) ==
    IF n = 0 THEN EmptyMap
    ELSE CHOOSE r \in { MonthlyStep(acc, t) : acc \in { MonthlyFold(sorted, n - 1) },
                                              t \in { sorted[n] } } : TRUE

\* monthlyData: month -> { inflow, outflow, net, notes }
monthlyData(transactions) ==
    CHOOSE r \in { MonthlyFold(sorted, Len(sorted)) : sorted \in { SortByDate(transactions) } } : TRUE

\* dataSummary: per month, the printed inflow, outflow and net (toFixed(1), in
\* tenths) and the notes
dataSummary(transactions) ==
    CHOOSE r \in
        { [m \in DOMAIN d |->
              [inflow |-> ToFixed(d[m].inflow, 10), outflow |-> ToFixed(d[m].outflow, 10),
               net |-> ToFixed(d[m].net, 10), notes |-> d[m].notes]] :
            d \in { monthlyData(transactions) } } : TRUE

-----------------------------------------------------------------------------
(* The view controls *)

\* setBaseCurrency(c)
SetBaseCurrency(c) ==
    /\ baseCurrency' = c
    /\ UNCHANGED <<debts, manualTransactions, financingFailRate, shiborShock, hiborShock,
                   sofrShock, simRates, scenarioMode, entityFilter, searchTerm, chartFilter,
                   debtTransactions, generatedAt, now, tzWest, cloudVars>>

\* setEntityFilter(e)
SetEntityFilter(e) ==
    /\ entityFilter' = e
    /\ UNCHANGED <<debts, manualTransactions, financingFailRate, shiborShock, hiborShock,
                   sofrShock, simRates, scenarioMode, baseCurrency, searchTerm, chartFilter,
                   debtTransactions, generatedAt, now, tzWest, cloudVars>>

\* setSearchTerm(e.target.value)
SetSearchTerm(term) ==
    /\ searchTerm' = term
    /\ UNCHANGED <<debts, manualTransactions, financingFailRate, shiborShock, hiborShock,
                   sofrShock, simRates, scenarioMode, baseCurrency, entityFilter, chartFilter,
                   debtTransactions, generatedAt, now, tzWest, cloudVars>>

\* setChartFilter(e)
SetChartFilter(e) ==
    /\ chartFilter' = e
    /\ UNCHANGED <<debts, manualTransactions, financingFailRate, shiborShock, hiborShock,
                   sofrShock, simRates, scenarioMode, baseCurrency, entityFilter, searchTerm,
                   debtTransactions, generatedAt, now, tzWest, cloudVars>>

\* the HKD/RMB slider
SetHkdRate(v) ==
    /\ simRates' = [simRates EXCEPT !.HKD_TO_RMB = v]
    /\ scenarioMode' = "BASE"
    /\ UNCHANGED <<debts, manualTransactions, financingFailRate, shiborShock, hiborShock,
                   sofrShock, baseCurrency, entityFilter, searchTerm, chartFilter,
                   debtTransactions, generatedAt, now, tzWest, cloudVars>>

\* the USD/RMB slider
SetUsdRate(v) ==
    /\ simRates' = [simRates EXCEPT !.USD_TO_RMB = v]
    /\ scenarioMode' = "BASE"
    /\ UNCHANGED <<debts, manualTransactions, financingFailRate, shiborShock, hiborShock,
                   sofrShock, baseCurrency, entityFilter, searchTerm, chartFilter,
                   debtTransactions, generatedAt, now, tzWest, cloudVars>>

-----------------------------------------------------------------------------
(* The views over a ledger: the user changes what the views show *)

ViewCurrencies == {"RMB", "HKD", "USD"}
ViewEntities == {"ALL", "PROPERTY", "ENTERPRISE"}
ViewSearchTerms == {NoSearch, 202401, 202404}
ViewHkdRates == {Rat(92, 100), Num(1)}
ViewUsdRates == {Rat(723, 100), Num(7)}
MaxLedger == 2

ViewManual ==
    AppManual \cup
    { Transaction(0, Date(2024, 4, 1), "PROPERTY", "OPERATING", "sales", Zero, Num(5), Zero, "FORECAST") }

\* the manual ledgers of at most MaxLedger entries, numbered in order
ViewManualLists ==
    { [i \in DOMAIN f |-> [f[i] EXCEPT !.id = TxId("manual", i, NoDate)]] :
        f \in UNION { [1..n -> ViewManual] : n \in 0..MaxLedger } }

ViewDebtLists ==
    { << >>,
      << Debt(1, "PROPERTY", "RMB", Num(10), Num(4), "FIXED", Date(2024, 1, 1),
              Date(2024, 7, 1), "QUARTERLY", "ACTIVE") >> }

ViewInit ==
    /\ debts \in ViewDebtLists
    /\ manualTransactions \in ViewManualLists
    /\ financingFailRate = 0
    /\ shiborShock = 0
    /\ hiborShock = 0
    /\ sofrShock = 0
    /\ simRates = DEFAULT_RATES
    /\ scenarioMode = "BASE"
    /\ baseCurrency = "RMB"
    /\ entityFilter = "ALL"
    /\ searchTerm = NoSearch
    /\ chartFilter = "ALL"
    /\ now = Date(2024, 3, 15)
    /\ tzWest = FALSE
    /\ LocalOnly
    /\ debtTransactions = Generate(debts, 0, 0, 0, 0, now)
    /\ generatedAt = now

ViewNext ==
    \/ \E c \in ViewCurrencies : SetBaseCurrency(c)
    \/ \E e \in ViewEntities : SetEntityFilter(e)
    \/ \E term \in ViewSearchTerms : SetSearchTerm(term)
    \/ \E e \in ViewEntities : SetChartFilter(e)
    \/ \E v \in ViewHkdRates : SetHkdRate(v)
    \/ \E v \in ViewUsdRates : SetUsdRate(v)

ViewSpec == ViewInit /\ [][ViewNext]_vars

-----------------------------------------------------------------------------
(* DebtModal: the debt form *)

\* formData: the name typed into the form and the fields the engine reads
FormData(name, debt) == [name |-> name, debt |-> debt]

\* DebtModal.handleSubmit: an empty name or a principal of 0 is refused with an
\* alert; otherwise the payload goes to onUpdate when the form was opened on an
\* existing debt and to onAdd, with a fresh id, when not
HandleSubmit(formData, isEditing) ==
    IF formData.name = "" \/ formData.debt.principal = Zero
    THEN UNCHANGED vars
    ELSE IF isEditing /\ formData.debt.id # NoDebt
         THEN HandleUpdateDebt(formData.debt)
         ELSE HandleSaveDebt(formData.debt)

\* handleOpenAdd, the fields are typed, handleSubmit
SubmitNewDebt(formData) == HandleSubmit([formData EXCEPT !.debt.id = NoDebt], FALSE)

\* handleOpenEdit(debt), the fields are overtyped, handleSubmit
SubmitEditedDebt(id, formData) ==
    /\ id \in DebtIds
    /\ HandleSubmit([formData EXCEPT !.debt.id = id], TRUE)

FormNames == {"", "loan"}
FormPrincipals == {Zero, Num(10)}
FormStartDates == {Date(2024, 1, 1), Date(2024, 5, 1)}
FormEndDates == {Date(2024, 7, 1), Date(2024, 3, 1)}

\* what the user can have typed into the form when submitting it
FormInputs ==
    { FormData(name, Debt(NoDebt, "PROPERTY", "RMB", pr, Num(3), "SHIBOR", sd, ed, "QUARTERLY", st)) :
        name \in FormNames, pr \in FormPrincipals, sd \in FormStartDates, ed \in FormEndDates,
        st \in {"PLANNED", "ACTIVE"} }

\* INITIAL_DEBTS: the first instrument (start six months before now, end
\* eighteen months after, on the first of the month)
InitialDebts ==
    << Debt(1, "ENTERPRISE", "HKD", Num(20), Rat(45, 10), "HIBOR", Date(2023, 9, 1),
            Date(2025, 9, 1), "QUARTERLY", "ACTIVE") >>

FormInit ==
    /\ debts = InitialDebts
    /\ manualTransactions = << >>
    /\ financingFailRate = 0
    /\ shiborShock = 0
    /\ hiborShock = 0
    /\ sofrShock = 0
    /\ simRates = DEFAULT_RATES
    /\ scenarioMode = "BASE"
    /\ baseCurrency = "RMB"
    /\ entityFilter = "ALL"
    /\ searchTerm = NoSearch
    /\ chartFilter = "ALL"
    /\ now = Date(2024, 3, 15)
    /\ tzWest \in BOOLEAN
    /\ LocalOnly
    /\ debtTransactions = Generate(debts, 0, 0, 0, 0, now)
    /\ generatedAt = now

FormNext ==
    \/ \E f \in FormInputs : Len(debts) < MaxDebts /\ SubmitNewDebt(f)
    \/ \E f \in FormInputs, id \in DebtIds : SubmitEditedDebt(id, f)
    \/ \E id \in DebtIds : HandleDeleteDebt(id)

FormSpec == FormInit /\ [][FormNext]_vars

-----------------------------------------------------------------------------
(* Scenario controller: the presets and the range inputs *)

\* a preset that leaves the exchange rates as the sliders set them
PresetOf_KeepRates(mode) ==
    IF mode = "BASE"
    THEN [rates |-> simRates, failRate |-> 0, shibor |-> 0, hibor |-> 0, sofr |-> 0]
    ELSE IF mode = "PESSIMISTIC"
    THEN [rates |-> simRates, failRate |-> 30, shibor |-> 50, hibor |-> 100, sofr |-> 100]
    ELSE [rates |-> simRates, failRate |-> 0, shibor |-> -20, hibor |-> -20, sofr |-> -50]

\* the bundle applyScenario writes for a mode
PresetOf(mode) ==
    IF mode = "BASE"
    THEN [rates |-> DEFAULT_RATES, failRate |-> 0, shibor |-> 0, hibor |-> 0, sofr |-> 0]
    ELSE IF mode = "PESSIMISTIC"
    THEN [rates |-> [HKD_TO_RMB |-> Rat(85, 100), USD_TO_RMB |-> Rat(745, 100)],
          failRate |-> 30, shibor |-> 50, hibor |-> 100, sofr |-> 100]
    ELSE [rates |-> [HKD_TO_RMB |-> Rat(95, 100), USD_TO_RMB |-> Rat(710, 100)],
          failRate |-> 0, shibor |-> -20, hibor |-> -20, sofr |-> -50]

\* applyScenario(mode): the mode and the six parameters are set together; the
\* generator runs when one of its dependencies has changed
ApplyScenario(mode) ==
    LET p == PresetOf(mode)
    IN  /\ scenarioMode' = mode
        /\ simRates' = p.rates
        /\ financingFailRate' = p.failRate
        /\ shiborShock' = p.shibor
        /\ hiborShock' = p.hibor
        /\ sofrShock' = p.sofr
        /\ IF <<p.failRate, p.shibor, p.hibor, p.sofr>> = <<financingFailRate, shiborShock, hiborShock, sofrShock>>
           THEN Memoised
           ELSE Regenerate(debts, p.failRate, p.shibor, p.hibor, p.sofr)
        /\ UNCHANGED <<debts, manualTransactions, baseCurrency, entityFilter, searchTerm,
                       chartFilter, now, tzWest, cloudVars>>

RLe(a, b) == a.n * b.d <= b.n * a.d

\* the values an <input type="range" min max step> hands to onChange, with
\* every stop beyond the ends
RangeInput_Unclamped(min, max, step) ==
    LET q == RDiv(RAdd(max, RNeg(min)), step)
    IN  { RAdd(min, RMul(step, Num(k))) : k \in (-1)..((q.n \div q.d) + 1) }

\* the values an <input type="range" min max step> hands to onChange: the
\* stops min, min + step, ... that do not exceed max
RangeInput(min, max, step) ==
    LET q == RDiv(RAdd(max, RNeg(min)), step)
    IN  { v \in { RAdd(min, RMul(step, Num(k))) : k \in 0..(q.n \div q.d) } : RLe(min, v) /\ RLe(v, max) }

HkdRateStops == RangeInput(Rat(8, 10), Rat(11, 10), Rat(5, 1000))
UsdRateStops == RangeInput(Rat(65, 10), Num(8), Rat(5, 1000))
ShockStops == { v.n : v \in RangeInput(Num(-200), Num(200), Num(10)) }
FailRateStops == { v.n : v \in RangeInput(Num(0), Num(100), Num(5)) }

\* the two ends of a slider
EndsOf(stops) ==
    { v \in stops : (\A w \in stops : RLe(v, w)) \/ (\A w \in stops : RLe(w, v)) }

ScenarioModes == {"BASE", "OPTIMISTIC", "PESSIMISTIC"}
ScenarioHkdRates == EndsOf(HkdRateStops)
ScenarioUsdRates == EndsOf(UsdRateStops)
ScenarioShocks == { v.n : v \in EndsOf({ Num(k) : k \in ShockStops }) }
ScenarioFailRates == { v.n : v \in EndsOf({ Num(k) : k \in FailRateStops }) }

ScenarioInit ==
    /\ debts = InitialDebts
    /\ manualTransactions = << >>
    /\ financingFailRate = 0
    /\ shiborShock = 0
    /\ hiborShock = 0
    /\ sofrShock = 0
    /\ simRates = DEFAULT_RATES
    /\ scenarioMode = "BASE"
    /\ baseCurrency = "RMB"
    /\ entityFilter = "ALL"
    /\ searchTerm = NoSearch
    /\ chartFilter = "ALL"
    /\ now = Date(2024, 3, 15)
    /\ tzWest = FALSE
    /\ LocalOnly
    /\ debtTransactions = Generate(debts, 0, 0, 0, 0, now)
    /\ generatedAt = now

ScenarioNext ==
    \/ \E mode \in ScenarioModes : ApplyScenario(mode)
    \/ \E v \in ScenarioHkdRates : SetHkdRate(v)
    \/ \E v \in ScenarioUsdRates : SetUsdRate(v)
    \/ \E v \in ScenarioShocks : SetShiborShock(v)
    \/ \E v \in ScenarioShocks : SetHiborShock(v)
    \/ \E v \in ScenarioShocks : SetSofrShock(v)
    \/ \E v \in ScenarioFailRates : SetFinancingFailRate(v)

ScenarioSpec == ScenarioInit /\ [][ScenarioNext]_vars

-----------------------------------------------------------------------------
(* App with cloud synchronisation: the initial load and the synchronised
   handlers *)

\* INITIAL_TRANSACTIONS, the built-in list (one of its sales collections)
INITIAL_TRANSACTIONS ==
    << Transaction(1, Date(2024, 3, 5), "PROPERTY", "OPERATING", "sales", Zero, Num(20), Zero, "ACTUAL") >>

\* the states of the promise returned by fetchCloudTransactions()
FetchIdle == [st |-> "idle", data |-> << >>]
FetchPending == [st |-> "pending", data |-> << >>]
FetchNull == [st |-> "null", data |-> << >>]
FetchData(list) == [st |-> "data", data |-> list]

\* what the cloud table can hold
CloudLists ==
    { << >>,
      << Transaction(1, Date(2024, 2, 1), "ENTERPRISE", "INVESTING", "dividend", Num(5), Zero, Zero, "ACTUAL") >> }

\* fetchCloudTransactions resolves to null (error, network exception) or to the rows
FetchResults == {FetchNull} \cup { FetchData(l) : l \in CloudLists }

\* the state the load does not write
LoadKeeps ==
    UNCHANGED <<debts, financingFailRate, shiborShock, hiborShock, sofrShock, simRates,
                scenarioMode, baseCurrency, entityFilter, searchTerm, chartFilter,
                debtTransactions, generatedAt, now, tzWest, isCloudEnabled, cloudCalls>>

\* loadData after the await: cloudData is what Promise.race settled with
AfterRace(cloudData) ==
    /\ manualTransactions' = IF cloudData.st = "data" /\ Len(cloudData.data) > 0
                             THEN cloudData.data ELSE INITIAL_TRANSACTIONS
    /\ syncStatus' = IF cloudData.st = "data" THEN "CONNECTED" ELSE "LOCAL"
    /\ loading' = FALSE
    /\ loadPc' = "done"

\* the mount effect: loadData up to its first await, or to its end when no
\* client is configured
LoadData ==
    /\ loadPc = "mount"
    /\ timer' = "armed"
    /\ IF isCloudEnabled
       THEN /\ fetchState' = FetchPending
            /\ loadPc' = "race"
            /\ loading' = TRUE
            /\ UNCHANGED <<manualTransactions, syncStatus>>
       ELSE /\ manualTransactions' = INITIAL_TRANSACTIONS
            /\ syncStatus' = "LOCAL"
            /\ loading' = FALSE
            /\ loadPc' = "done"
            /\ UNCHANGED fetchState
    /\ LoadKeeps

\* the fetch settles; when the race is still open it settles the race and
\* loadData runs to its end
FetchSettles(result) ==
    /\ fetchState = FetchPending
    /\ fetchState' = result
    /\ IF loadPc = "race"
       THEN AfterRace(result)
       ELSE UNCHANGED <<manualTransactions, syncStatus, loading, loadPc>>
    /\ UNCHANGED timer
    /\ LoadKeeps

\* a timer whose promise is not part of the race
TimeoutFires_Ignored ==
    /\ timer = "armed"
    /\ timer' = "fired"
    /\ UNCHANGED <<manualTransactions, syncStatus, loading, loadPc, fetchState>>
    /\ LoadKeeps

\* the 5 s timer fires; when the race is still open it settles the race with null
TimeoutFires ==
    /\ timer = "armed"
    /\ timer' = "fired"
    /\ IF loadPc = "race"
       THEN AfterRace(FetchNull)
       ELSE UNCHANGED <<manualTransactions, syncStatus, loading, loadPc>>
    /\ UNCHANGED fetchState
    /\ LoadKeeps

\* the loader is shown instead of the page: if (loading && manualTransactions.length === 0)
LoaderShown == loading /\ Len(manualTransactions) = 0

\* what a synchronised handler leaves alone
SyncKeeps ==
    UNCHANGED <<debts, financingFailRate, shiborShock, hiborShock, sofrShock, simRates,
                scenarioMode, baseCurrency, entityFilter, searchTerm, chartFilter,
                debtTransactions, generatedAt, now, tzWest, isCloudEnabled, loading,
                syncStatus, loadPc, fetchState, timer>>

\* the handlers call the cloud store whatever the mode
CallCloud_Always(k) == cloudCalls' = cloudCalls + k

\* if (syncStatus === 'CONNECTED') await save/deleteCloudTransaction(...), k times
CallCloud(k) == cloudCalls' = IF syncStatus = "CONNECTED" THEN cloudCalls + k ELSE cloudCalls

\* handleSaveTransaction, not in edit mode
SyncedSaveAdd(t) ==
    /\ ~LoaderShown
    /\ manualTransactions' =
          Append(manualTransactions,
                 [t EXCEPT !.id = TxId("manual", GenerateId(ManualIds), NoDate)])
    /\ CallCloud(1)
    /\ SyncKeeps

\* handleSaveTransaction in edit mode
SyncedSaveEdit(id, t) ==
    /\ ~LoaderShown
    /\ id \in ManualIds
    /\ manualTransactions' =
          [i \in 1..Len(manualTransactions) |->
              IF manualTransactions[i].id.ref = id
              THEN [t EXCEPT !.id = TxId("manual", id, NoDate)]
              ELSE manualTransactions[i]]
    /\ CallCloud(1)
    /\ SyncKeeps

\* handleDelete, confirmed
SyncedDelete(id) ==
    /\ ~LoaderShown
    /\ id \in ManualIds
    /\ manualTransactions' = SelectSeq(manualTransactions, LAMBDA t : t.id.ref # id)
    /\ CallCloud(1)
    /\ SyncKeeps

\* the imported rows appended one by one, each under a fresh generateId()
RECURSIVE AppendFresh(_, _)
AppendFresh(list, rows) ==
    IF rows = << >> THEN list
    ELSE LET used == { list[i].id.ref : i \in 1..Len(list) }
             row == [Head(rows) EXCEPT !.id = TxId("manual", GenerateId(used), NoDate)]
         IN  AppendFresh(Append(list, row), Tail(rows))

\* handleImportCSV, reader.onload with the parsed rows newTrans (not empty):
\* [...prev, ...newTrans], and each row is saved to the cloud store when connected
HandleImportCSV(newTrans) ==
    /\ ~LoaderShown
    /\ Len(newTrans) > 0
    /\ manualTransactions' = AppendFresh(manualTransactions, newTrans)
    /\ CallCloud(Len(newTrans))
    /\ SyncKeeps

\* the rows of an imported file
ImportRow == Transaction(0, Date(2024, 4, 10), "PROPERTY", "OPERATING", "csv", Zero, Num(3), Zero, "FORECAST")
ImportFiles == { <<ImportRow>>, <<ImportRow, ImportRow>> }

MaxCloudCalls == 2

LoadInit ==
    /\ debts = InitialDebts
    /\ manualTransactions = << >>
    /\ financingFailRate = 0
    /\ shiborShock = 0
    /\ hiborShock = 0
    /\ sofrShock = 0
    /\ simRates = DEFAULT_RATES
    /\ scenarioMode = "BASE"
    /\ baseCurrency = "RMB"
    /\ entityFilter = "ALL"
    /\ searchTerm = NoSearch
    /\ chartFilter = "ALL"
    /\ now = Date(2024, 3, 15)
    /\ tzWest = FALSE
    /\ debtTransactions = Generate(debts, 0, 0, 0, 0, now)
    /\ generatedAt = now
    /\ isCloudEnabled \in BOOLEAN
    /\ loading = TRUE
    /\ syncStatus = "LOCAL"
    /\ loadPc = "mount"
    /\ fetchState = FetchIdle
    /\ timer = "idle"
    /\ cloudCalls = 0

LoadNext ==
    \/ LoadData
    \/ \E result \in FetchResults : FetchSettles(result)
    \/ TimeoutFires
    \/ \E t \in AppManual : Len(manualTransactions) < MaxManual /\ cloudCalls < MaxCloudCalls /\ SyncedSaveAdd(t)
    \/ \E t \in AppManual, id \in ManualIds : cloudCalls < MaxCloudCalls /\ SyncedSaveEdit(id, t)
    \/ \E id \in ManualIds : cloudCalls < MaxCloudCalls /\ SyncedDelete(id)
    \/ \E f \in ImportFiles :
          /\ Len(manualTransactions) + Len(f) <= MaxManual
          /\ cloudCalls + Len(f) <= MaxCloudCalls
          /\ HandleImportCSV(f)

LoadSpec == LoadInit /\ [][LoadNext]_vars

\* the mount effect runs and a timer that was set fires; nothing makes the
\* cloud answer
LoadFairSpec == LoadSpec /\ WF_vars(LoadData) /\ WF_vars(TimeoutFires)

-----------------------------------------------------------------------------
(* The calendar over the ledger of a long-running debt *)

\* INITIAL_DEBTS: the club loan d-004 (start twelve months before now, end
\* twenty-four months after, on the tenth of the month)
ClubLoan ==
    Debt(4, "ENTERPRISE", "HKD", Num(15), Rat(48, 10), "HIBOR", Date(2023, 3, 10),
         Date(2026, 3, 10), "QUARTERLY", "ACTIVE")

CalendarInit ==
    /\ debts = << ClubLoan >>
    /\ manualTransactions \in ViewManualLists
    /\ financingFailRate = 0
    /\ shiborShock = 0
    /\ hiborShock = 0
    /\ sofrShock = 0
    /\ simRates = DEFAULT_RATES
    /\ scenarioMode = "BASE"
    /\ baseCurrency = "RMB"
    /\ entityFilter = "ALL"
    /\ searchTerm = NoSearch
    /\ chartFilter = "ALL"
    /\ now = Date(2024, 3, 15)
    /\ tzWest = FALSE
    /\ LocalOnly
    /\ debtTransactions = Generate(debts, 0, 0, 0, 0, now)
    /\ generatedAt = now

CalendarNext ==
    \/ \E c \in ViewCurrencies : SetBaseCurrency(c)
    \/ \E v \in ViewHkdRates : SetHkdRate(v)
    \/ \E v \in ViewUsdRates : SetUsdRate(v)

CalendarSpec == CalendarInit /\ [][CalendarNext]_vars

-----------------------------------------------------------------------------
(* The scenario controller over low-rate debts *)

StressBaseRates == {Zero, Num(1), Num(3)}

\* the instruments the stress specification starts from
StressDebts ==
    { Debt(1, "PROPERTY", "RMB", Num(10), br, bm, Date(2024, 1, 1), Date(2024, 7, 1), "QUARTERLY", st) :
        br \in StressBaseRates, bm \in {"SHIBOR", "FIXED"}, st \in {"PLANNED", "ACTIVE"} }

StressInit ==
    /\ debts \in { << d >> : d \in StressDebts }
    /\ manualTransactions = << >>
    /\ financingFailRate = 0
    /\ shiborShock = 0
    /\ hiborShock = 0
    /\ sofrShock = 0
    /\ simRates = DEFAULT_RATES
    /\ scenarioMode = "BASE"
    /\ baseCurrency = "RMB"
    /\ entityFilter = "ALL"
    /\ searchTerm = NoSearch
    /\ chartFilter = "ALL"
    /\ now = Date(2024, 3, 15)
    /\ tzWest = FALSE
    /\ LocalOnly
    /\ debtTransactions = Generate(debts, 0, 0, 0, 0, now)
    /\ generatedAt = now

StressNext ==
    \/ \E mode \in ScenarioModes : ApplyScenario(mode)
    \/ \E v \in ScenarioShocks : SetShiborShock(v)
    \/ \E v \in ScenarioShocks : SetHiborShock(v)
    \/ \E v \in ScenarioFailRates : SetFinancingFailRate(v)

StressSpec == StressInit /\ [][StressNext]_vars

-----------------------------------------------------------------------------
(* Reading the generated events *)

\* the generated events that carry linkedDebtId = id, in generation order
EventsOf(txs, id) == SelectSeq(txs, LAMBDA e : e.linkedDebtId = id)

\* those of one kind: "princ-in" (draw), "int" (interest), "princ-out" (repayment)
EventsOfKind(txs, id, kind) ==
    SelectSeq(txs, LAMBDA e : e.linkedDebtId = id /\ e.id.kind = kind)

\* the amount of an event in the currency cur
AmountIn(e, cur) ==
    IF cur = "HKD" THEN e.amountHKD ELSE IF cur = "RMB" THEN e.amountRMB ELSE e.amountUSD

SeqToSet(sq) == { sq[i] : i \in 1..Len(sq) }

DebtSet == SeqToSet(debts)

\* 1 - f/100
FailScale(f) == RAdd(Num(1), RNeg(RDiv(Num(f), Num(100))))

-----------------------------------------------------------------------------
(* C1: a debt whose frequency is AT_MATURITY has no interest event, whatever
   its dates, status and benchmark and whatever the sliders say; its events are
   its repayment, preceded by its draw exactly when it is PLANNED. *)
C1_AtMaturityNoInterest ==
    \A debt \in DebtSet :
        debt.frequency = "AT_MATURITY" =>
            /\ EventsOfKind(debtTransactions, debt.id, "int") = << >>
            /\ LET kinds == [i \in 1..Len(EventsOf(debtTransactions, debt.id)) |->
                                EventsOf(debtTransactions, debt.id)[i].id.kind]
               IN  kinds = IF debt.status = "PLANNED"
                           THEN << "princ-in", "princ-out" >>
                           ELSE << "princ-out" >>

\* an AT_MATURITY debt running over six months, under a non-zero failure rate
\* and a non-zero shock of its own benchmark, has been generated
C1_Witness ==
    \E debt \in DebtSet :
        /\ debt.frequency = "AT_MATURITY"
        /\ debt.startDate = Date(2024, 1, 1) /\ debt.endDate = Date(2024, 7, 1)
        /\ debt.benchmark = "SHIBOR" /\ shiborShock = 100 /\ financingFailRate = 30
        /\ Len(EventsOf(debtTransactions, debt.id)) >= 1

(* C2: a debt that is ACTIVE or SETTLED has no draw event, its repayment is
   -principal and its events are those generated under any other value of the
   financing-failure slider (scaling factor 1). *)
C2_ActiveUnscaled ==
    \A debt \in DebtSet :
        debt.status \in {"ACTIVE", "SETTLED"} =>
            /\ EventsOfKind(debtTransactions, debt.id, "princ-in") = << >>
            /\ \A e \in SeqToSet(EventsOfKind(debtTransactions, debt.id, "princ-out")) :
                   AmountIn(e, debt.currency) = RNeg(debt.principal)
            /\ \A f \in GenFailRates :
                   EventsOf(debtTransactions, debt.id) =
                       DebtEvents(debt, f, shiborShock, hiborShock, sofrShock, now)

\* an ACTIVE debt with interest events has been generated under a failure rate of 50
C2_Witness ==
    \E debt \in DebtSet :
        /\ debt.status = "ACTIVE"
        /\ financingFailRate = 50
        /\ Len(EventsOfKind(debtTransactions, debt.id, "int")) >= 2

(* C3: for a PLANNED debt the draw is principal * (1 - f/100), the repayment is
   its negation (draw + repayment = 0), every interest amount is the amount
   generated under f = 0 times (1 - f/100); under f = 0 the draw is the
   principal and the repayment is -principal. *)
C3_PlannedScaled ==
    \A debt \in DebtSet :
        debt.status = "PLANNED" =>
            LET cur == debt.currency
                scale == FailScale(financingFailRate)
                draws == EventsOfKind(debtTransactions, debt.id, "princ-in")
                repays == EventsOfKind(debtTransactions, debt.id, "princ-out")
                ints == EventsOfKind(debtTransactions, debt.id, "int")
                ints0 == InterestEvents(debt, 0, shiborShock, hiborShock, sofrShock, now)
            IN  /\ Len(draws) = 1 /\ Len(repays) = 1
                /\ AmountIn(draws[1], cur) = RMul(debt.principal, scale)
                /\ AmountIn(repays[1], cur) = RNeg(RMul(debt.principal, scale))
                /\ RAdd(AmountIn(draws[1], cur), AmountIn(repays[1], cur)) = Zero
                /\ Len(ints) = Len(ints0)
                /\ \A i \in 1..Len(ints) :
                       AmountIn(ints[i], cur) = RMul(AmountIn(ints0[i], cur), scale)
                /\ financingFailRate = 0 =>
                       /\ AmountIn(draws[1], cur) = debt.principal
                       /\ AmountIn(repays[1], cur) = RNeg(debt.principal)

\* the quarterly PLANNED debt of principal 10 under a failure rate of 50: the
\* draw is 5, the repayment -5 and both interest events are -0.05
C3_Witness ==
    \E debt \in DebtSet :
        /\ debt.status = "PLANNED" /\ debt.currency = "RMB"
        /\ financingFailRate = 50 /\ shiborShock = 0 /\ hiborShock = 0 /\ sofrShock = 0
        /\ debt.principal = Num(10)
        /\ \E e \in SeqToSet(debtTransactions) : e.id.kind = "princ-in" /\ e.amountRMB = Num(5)
        /\ \E e \in SeqToSet(debtTransactions) : e.id.kind = "princ-out" /\ e.amountRMB = Num(-5)
        /\ Len(EventsOfKind(debtTransactions, debt.id, "int")) = 2
        /\ \A e \in SeqToSet(EventsOfKind(debtTransactions, debt.id, "int")) :
               e.amountRMB = Rat(-5, 100)

(* C4: the generator is a function of (debts, financingFailRate, the three
   shocks, now): a step after which debts, failure rate and shocks are what they
   were and the clock value read by the latest run is what it was (the run is
   repeated by an edit of a debt that changes no field, with other state of the
   App having changed in between) leaves the generated sequence as it was, event
   for event and field for field. *)
C4_Regeneration ==
    [][ ( /\ debts' = debts
          /\ financingFailRate' = financingFailRate
          /\ shiborShock' = shiborShock
          /\ hiborShock' = hiborShock
          /\ sofrShock' = sofrShock
          /\ generatedAt' = generatedAt )
        => debtTransactions' = debtTransactions ]_vars

\* two debts have been generated, manual entries have been added since, and
\* running the generator now returns the generated sequence
C4_Witness ==
    /\ Len(debts) = 2
    /\ Len(manualTransactions) = 2
    /\ Len(debtTransactions) >= 6
    /\ generatedAt = now
    /\ debtTransactions = Generate(debts, financingFailRate, shiborShock, hiborShock,
                                   sofrShock, now)

\* the positions of the event e in sq
Positions(sq, e) == { p \in 1..Len(sq) : sq[p] = e }

(* C5: the merge is stable: two events of the same date are in the merged
   ledger in the order they have in manual ++ generated. *)
C5_StableMerge ==
    LET concat == manualTransactions \o debtTransactions
        merged == allTransactions
    IN  \A i, j \in 1..Len(concat) :
            (i < j /\ concat[i].date = concat[j].date) =>
                /\ Positions(merged, concat[i]) # { }
                /\ Positions(merged, concat[j]) # { }
                /\ \A p \in Positions(merged, concat[i]), q \in Positions(merged, concat[j]) :
                       p < q

\* two manual events and a generated event share a date, and an event of an
\* earlier date comes after them in the concatenation
C5_Witness ==
    /\ Len(manualTransactions) = 2
    /\ manualTransactions[1].date = manualTransactions[2].date
    /\ manualTransactions[1] # manualTransactions[2]
    /\ \E i, j \in 1..Len(debtTransactions) :
           /\ debtTransactions[i].date = manualTransactions[1].date
           /\ GetTime(debtTransactions[j].date) < GetTime(manualTransactions[1].date)

\* the number of occurrences of e in sq
Count(sq, e) == Cardinality(Positions(sq, e))

(* C6: the merged ledger is in non-decreasing date order and is a permutation
   of manual ++ generated: every event occurs in it as often as in the input,
   unchanged, and nothing else occurs. *)
C6_SortedPermutation ==
    LET concat == manualTransactions \o debtTransactions
        merged == allTransactions
    IN  /\ \A p \in 1..(Len(merged) - 1) :
               GetTime(merged[p].date) <= GetTime(merged[p + 1].date)
        /\ Len(merged) = Len(concat)
        /\ \A e \in SeqToSet(concat) \cup SeqToSet(merged) :
               Count(merged, e) = Count(concat, e)

\* a ledger of at least six events whose concatenation is not in date order
C6_Witness ==
    LET concat == manualTransactions \o debtTransactions
    IN  /\ Len(concat) >= 6
        /\ \E i \in 1..(Len(concat) - 1) :
               GetTime(concat[i].date) > GetTime(concat[i + 1].date)

(* C10: a debt with an interval of m > 0 months has one interest event for each
   k >= 1 for which the date k*m calendar months after startDate, on the same
   day of the month, is <= endDate, dated that date, and no other interest
   event. *)
\* the calendar date n months after dt on the same day of the month, as a set:
\* empty when that month has no such day
SameDayMonthsAfter(dt, n) ==
    LET mIdx == (dt.m - 1) + n
        yy == dt.y + (mIdx \div 12)
        mm == (mIdx % 12) + 1
    IN  IF dt.d <= DaysInMonth(yy, mm) THEN { Date(yy, mm, dt.d) } ELSE { }

ClaimedInterestDates(debt, m) ==
    UNION { { dt \in SameDayMonthsAfter(debt.startDate, k * m) :
                GetTime(dt) <= GetTime(debt.endDate) } :
            k \in 1..(12 * (Abs(debt.endDate.y - debt.startDate.y) + 1)) }

C10_InterestEveryInterval ==
    \A debt \in DebtSet :
        LET m == IntervalMonths(debt.frequency)
            ints == EventsOfKind(debtTransactions, debt.id, "int")
        IN  m > 0 =>
              /\ { ints[i].date : i \in 1..Len(ints) } = ClaimedInterestDates(debt, m)
              /\ Len(ints) = Cardinality(ClaimedInterestDates(debt, m))

-----------------------------------------------------------------------------
(* The generated events of one debt *)

\* the shock, in bps, of the debt's own benchmark; 0 for a fixed-rate debt
OwnShock(debt) ==
    IF debt.benchmark = "SHIBOR" THEN shiborShock
    ELSE IF debt.benchmark = "HIBOR" THEN hiborShock
    ELSE IF debt.benchmark = "SOFR" THEN sofrShock
    ELSE 0

\* (1 - failRate/100) if PLANNED, else 1
ClaimedFactor(debt) == IF debt.status = "PLANNED" THEN FailScale(financingFailRate) ELSE Num(1)

\* -(principal * (ratePct/100) * (m/12)) * factor
ClaimedInterest(debt, ratePct, m) ==
    RMul(RNeg(RMul(RMul(debt.principal, RDiv(ratePct, Num(100))), RDiv(Num(m), Num(12)))),
         ClaimedFactor(debt))

(* C11: every interest event of a debt has the amount
   -(principal * ((baseRate + s/100)/100) * (intervalMonths/12)) * factor, s being
   the shock of the debt's own benchmark (0 for a fixed-rate debt) and factor
   (1 - failRate/100) if PLANNED, else 1: the same amount for every event of the
   debt; under a shock of +100 bps on its benchmark a base rate of 4% is charged
   as 5%. *)
C11_InterestAmount ==
    \A debt \in DebtSet :
        LET m == IntervalMonths(debt.frequency)
            ints == EventsOfKind(debtTransactions, debt.id, "int")
            ratePct == RAdd(debt.baseRate, RDiv(Num(OwnShock(debt)), Num(100)))
        IN  /\ \A i \in 1..Len(ints) :
                  /\ AmountIn(ints[i], debt.currency) = ClaimedInterest(debt, ratePct, m)
                  /\ AmountIn(ints[i], debt.currency) = AmountIn(ints[1], debt.currency)
            /\ (debt.baseRate = Num(4) /\ OwnShock(debt) = 100) =>
                  \A i \in 1..Len(ints) :
                     AmountIn(ints[i], debt.currency) = ClaimedInterest(debt, Num(5), m)

\* the ACTIVE quarterly SHIBOR debt of principal 10 at 4% under a SHIBOR shock
\* of +100 bps: two interest events of -0.125 each
C11_Witness ==
    \E debt \in DebtSet :
        /\ debt.benchmark = "SHIBOR" /\ shiborShock = 100 /\ debt.baseRate = Num(4)
        /\ debt.status = "ACTIVE" /\ debt.frequency = "QUARTERLY" /\ debt.principal = Num(10)
        /\ Len(EventsOfKind(debtTransactions, debt.id, "int")) = 2
        /\ \A e \in SeqToSet(EventsOfKind(debtTransactions, debt.id, "int")) :
               AmountIn(e, debt.currency) = Rat(-125, 1000)

(* C12: every debt, whatever its status, frequency and dates, has exactly one
   repayment event: dated endDate, category FINANCING, amount -principal * factor
   in the debt's currency, status FORECAST also when endDate is not after now. *)
C12_OneRepayment ==
    \A debt \in DebtSet :
        LET repays == EventsOfKind(debtTransactions, debt.id, "princ-out")
        IN  /\ Len(repays) = 1
            /\ repays[1].date = debt.endDate
            /\ repays[1].category = "FINANCING"
            /\ AmountIn(repays[1], debt.currency) = RMul(RNeg(debt.principal), ClaimedFactor(debt))
            /\ repays[1].status = "FORECAST"

\* a PLANNED debt under a failure rate of 30 whose endDate is before now has
\* its repayment, of -7, with status FORECAST
C12_Witness ==
    \E debt \in DebtSet :
        /\ debt.status = "PLANNED" /\ financingFailRate = 30 /\ debt.principal = Num(10)
        /\ GetTime(debt.endDate) < GetTime(now)
        /\ \E e \in SeqToSet(debtTransactions) :
              /\ e.id.kind = "princ-out" /\ e.linkedDebtId = debt.id
              /\ e.status = "FORECAST" /\ AmountIn(e, debt.currency) = Num(-7)

(* C13: a debt has a draw event if and only if it is PLANNED, and then exactly
   one: dated startDate, category FINANCING, status FORECAST whatever now is; and
   in every generated event the two amounts that are not in the debt's currency
   are 0. *)
C13_DrawIffPlanned ==
    /\ \A debt \in DebtSet :
        LET draws == EventsOfKind(debtTransactions, debt.id, "princ-in")
        IN  /\ Len(draws) = IF debt.status = "PLANNED" THEN 1 ELSE 0
            /\ \A i \in 1..Len(draws) :
                  /\ draws[i].date = debt.startDate
                  /\ draws[i].category = "FINANCING"
                  /\ draws[i].status = "FORECAST"
            /\ \A e \in SeqToSet(EventsOf(debtTransactions, debt.id)) :
                  \A cur \in Currencies \ {debt.currency} : AmountIn(e, cur) = Zero
    /\ \A e \in SeqToSet(debtTransactions) : \E debt \in DebtSet : e.linkedDebtId = debt.id

\* a PLANNED debt in HKD whose startDate is before now has its draw, with
\* interest events after it, next to an ACTIVE debt that has none
C13_Witness ==
    \E debt, other \in DebtSet :
        /\ debt.status = "PLANNED" /\ other.status = "ACTIVE"
        /\ debt.currency = "HKD"
        /\ GetTime(debt.startDate) < GetTime(now)
        /\ Len(EventsOfKind(debtTransactions, debt.id, "princ-in")) = 1
        /\ Len(EventsOfKind(debtTransactions, debt.id, "int")) >= 1
        /\ Len(EventsOfKind(debtTransactions, other.id, "princ-in")) = 0

(* C15: a debt with endDate < startDate has no interest event and still has its
   repayment and, being PLANNED, its draw; the events of every other debt are
   those the generator produces for that debt alone. *)
C15_EndBeforeStart ==
    \A debt \in DebtSet :
        GetTime(debt.endDate) < GetTime(debt.startDate) =>
            /\ EventsOfKind(debtTransactions, debt.id, "int") = << >>
            /\ Len(EventsOfKind(debtTransactions, debt.id, "princ-out")) = 1
            /\ debt.status = "PLANNED" =>
                  Len(EventsOfKind(debtTransactions, debt.id, "princ-in")) = 1
            /\ \A other \in DebtSet \ {debt} :
                  EventsOf(debtTransactions, other.id) =
                      Generate(<< other >>, financingFailRate, shiborShock, hiborShock,
                               sofrShock, now)

\* a PLANNED quarterly debt that ends before it starts, listed before a
\* monthly debt that has interest events
C15_Witness ==
    /\ Len(debts) = 2
    /\ GetTime(debts[1].endDate) < GetTime(debts[1].startDate)
    /\ debts[1].status = "PLANNED" /\ debts[1].frequency = "QUARTERLY"
    /\ Len(EventsOf(debtTransactions, debts[1].id)) = 2
    /\ Len(EventsOfKind(debtTransactions, debts[2].id, "int")) >= 2

\* the ids of a sequence of events, in order
IdsOf(txs) == [i \in 1..Len(txs) |-> txs[i].id]

(* C16: two events of one generator output have the same id if and only if
   they come from the same debt, are of the same kind and have the same date;
   and the ids do not depend on the stress parameters: the output for any other
   failure rate or shock has the same ids. *)
C16_IdsDerived ==
    /\ \A i, j \in 1..Len(debtTransactions) :
          (debtTransactions[i].id = debtTransactions[j].id)
          <=> ( /\ debtTransactions[i].linkedDebtId = debtTransactions[j].linkedDebtId
                /\ debtTransactions[i].id.kind = debtTransactions[j].id.kind
                /\ debtTransactions[i].date = debtTransactions[j].date )
    /\ \A f \in GenFailRates :
          IdsOf(Generate(debts, f, shiborShock, hiborShock, sofrShock, now)) = IdsOf(debtTransactions)
    /\ \A v \in GenShocks :
          /\ IdsOf(Generate(debts, financingFailRate, v, hiborShock, sofrShock, now)) = IdsOf(debtTransactions)
          /\ IdsOf(Generate(debts, financingFailRate, shiborShock, v, sofrShock, now)) = IdsOf(debtTransactions)
          /\ IdsOf(Generate(debts, financingFailRate, shiborShock, hiborShock, v, now)) = IdsOf(debtTransactions)

\* two debts with several interest events each have been regenerated under a
\* failure rate and a shock other than 0
C16_Witness ==
    /\ Len(debts) = 2
    /\ financingFailRate # 0 /\ hiborShock # 0
    /\ \A i \in 1..2 : Len(EventsOfKind(debtTransactions, debts[i].id, "int")) >= 1
    /\ Len(EventsOfKind(debtTransactions, debts[2].id, "int")) >= 2

\* the shocks of a second run: the debt's own benchmark keeps its shock, every
\* other benchmark is at v
OtherShocks(debt, v) ==
    [shibor |-> IF debt.benchmark = "SHIBOR" THEN shiborShock ELSE v,
     hibor |-> IF debt.benchmark = "HIBOR" THEN hiborShock ELSE v,
     sofr |-> IF debt.benchmark = "SOFR" THEN sofrShock ELSE v]

(* C23: the generated events of a debt are those of a run on that debt alone
   under the same failure rate in which the shock of every benchmark other than
   the debt's own (every shock, for a fixed-rate debt) has any other value; the
   exchange rates and the base currency are not read by the generator at all. *)
C23_OwnBenchmarkOnly ==
    \A debt \in DebtSet : \A v \in {-200, 100} :
        LET o == OtherShocks(debt, v)
        IN  EventsOf(debtTransactions, debt.id) =
                DebtEvents(debt, financingFailRate, o.shibor, o.hibor, o.sofr, generatedAt)

\* a HIBOR debt generated while the SHIBOR and SOFR shocks are not 0, and a
\* fixed-rate debt under three shocks
C23_Witness ==
    /\ shiborShock = 100
    /\ sofrShock = -200
    /\ hiborShock = 100
    /\ \E debt \in DebtSet :
          /\ debt.benchmark \in {"HIBOR", "FIXED"}
          /\ Len(EventsOfKind(debtTransactions, debt.id, "int")) > 0

-----------------------------------------------------------------------------
(* The debt-linked events of the merged ledger *)

\* the events of the merged ledger that carry a linkedDebtId
LinkedEvents == SelectSeq(allTransactions, LAMBDA e : e.linkedDebtId # NoDebt)

(* C14: at every moment the status of every interest event in the ledger is
   FORECAST exactly when the event's date is strictly after now, and ACTUAL
   otherwise, also after now has advanced with no debt and no stress parameter
   changed. *)
C14_InterestStatusCurrent ==
    \A e \in SeqToSet(allTransactions) :
        e.id.kind = "int" =>
            (e.status = "FORECAST" <=> GetTime(e.date) > GetTime(now))

(* C18: after any sequence of additions, updates and deletions of debts and of
   changes of a stress parameter, the debt-linked events of the merged ledger
   are the output of a run of the generator on the current debts and the current
   stress parameters: every linkedDebtId is the id of a current debt, every
   current debt has exactly one repayment event, and no event of an earlier
   version of a debt or of the parameters remains. *)
C18_LedgerDerived ==
    /\ LinkedEvents = SortByDate(Generate(debts, financingFailRate, shiborShock, hiborShock,
                                           sofrShock, generatedAt))
    /\ \A e \in SeqToSet(LinkedEvents) : e.linkedDebtId \in DebtIds
    /\ \A d \in DebtSet :
          Len(SelectSeq(allTransactions,
                        LAMBDA e : e.linkedDebtId = d.id /\ e.id.kind = "princ-out")) = 1

\* a debt has been deleted and another one edited under a failure rate of 50,
\* next to manual entries: one debt is left, with id 2
C18_Witness ==
    /\ Len(debts) = 1 /\ debts[1].id = 2
    /\ debts[1].status = "PLANNED"
    /\ financingFailRate = 50
    /\ Len(manualTransactions) >= 1
    /\ Len(LinkedEvents) >= 3

-----------------------------------------------------------------------------
(* The views and the INTERNAL category *)

\* the events of the merged ledger that belong to entity e
EntityEvents(e) == SelectSeq(allTransactions, LAMBDA t : t.entity = e)

\* the running balance of the row before row i
PreviousBal(rows, i) == IF i = 1 THEN StartBase ELSE rows[i - 1].runningBal

\* C7: in a single-entity view of the ledger table every event of that entity
\* in the merged ledger has exactly one row, the running balance after the last
\* row is the entity's converted starting balance plus the sum of the converted
\* amounts of all of the entity's events, and each row's running balance is the
\* previous row's plus the row's converted amount.
C7_EntityRunningBalance ==
    entityFilter \in {"PROPERTY", "ENTERPRISE"} =>
        LET rows == TableRows(allTransactions)
            own == SortByDate(EntityEvents(entityFilter))
        IN  /\ [i \in 1..Len(rows) |-> rows[i].t] = own
            /\ Len(own) > 0 =>
                 /\ Len(rows) > 0
                 /\ rows[Len(rows)].runningBal =
                       RAdd(StartBase, RSum([i \in 1..Len(own) |-> TotalInBase(own[i])], Len(own)))
            /\ \A i \in 1..Len(rows) :
                 rows[i].runningBal = RAdd(PreviousBal(rows, i), rows[i].totalBase)

\* the ledger with the amounts of its INTERNAL events replaced by zero
ZeroInternal(transactions) ==
    [i \in 1..Len(transactions) |->
        IF transactions[i].category = "INTERNAL"
        THEN [transactions[i] EXCEPT !.amountHKD = Zero, !.amountRMB = Zero, !.amountUSD = Zero]
        ELSE transactions[i]]

\* the calendar pages on which the ledger has events
LedgerPages == { << allTransactions[i].date.y, allTransactions[i].date.m >> : i \in 1..Len(allTransactions) }

\* C8: the amounts of INTERNAL events contribute nothing to the calendar: every
\* daily balance and every day cell's net flow and end balance are what they
\* are when those amounts are zero; and in the ledger table of its own entity's
\* view the row of an INTERNAL event moves the running balance by the event's
\* converted amount.
C8_InternalOnlyInTable ==
    /\ \A w \in { [with |-> dailyBalances(allTransactions),
                   without |-> dailyBalances(ZeroInternal(allTransactions))] } :
         /\ w.with = w.without
         /\ \A p \in LedgerPages :
              \A g \in { [with |-> calendarGrid(allTransactions, w.with, p[1], p[2]),
                          without |-> calendarGrid(ZeroInternal(allTransactions), w.without, p[1], p[2])] } :
                 \A i \in DOMAIN g.with :
                    /\ g.with[i].netFlow = g.without[i].netFlow
                    /\ g.with[i].endBalance = g.without[i].endBalance
    /\ entityFilter \in {"PROPERTY", "ENTERPRISE"} =>
         \A rows \in { TableRows(allTransactions) } :
            \A i \in 1..Len(rows) :
               rows[i].t.category = "INTERNAL" =>
                  /\ rows[i].t.entity = entityFilter
                  /\ rows[i].runningBal =
                        RAdd(PreviousBal(rows, i),
                             getTotalInBase(rows[i].t.amountHKD, rows[i].t.amountRMB, rows[i].t.amountUSD))

\* an INTERNAL event with a non-zero amount, dated inside the calendar window
\* next to an event of another category, is shown in the table of its entity
C8_Witness ==
    /\ entityFilter \in {"PROPERTY", "ENTERPRISE"}
    /\ \E i \in 1..Len(allTransactions) :
         /\ allTransactions[i].category = "INTERNAL"
         /\ allTransactions[i].entity = entityFilter
         /\ TotalInBase(allTransactions[i]) # Zero
         /\ HasBalance(dailyBalances(allTransactions), allTransactions[i].date)
         /\ \E k \in 1..Len(TableRows(allTransactions)) :
              TableRows(allTransactions)[k].t = allTransactions[i]
         /\ \E j \in 1..Len(allTransactions) :
              /\ allTransactions[j].category # "INTERNAL"
              /\ allTransactions[j].date = allTransactions[i].date

\* C9: every monthly net-flow summary excludes INTERNAL events: the dashboard
\* chart's inflow, outflow and net, the ledger table's month-header net flow
\* and the AI summary's inflow, outflow and net of every month are what they
\* are when the amounts of the INTERNAL events are zero.
C9_MonthlyNetExcludesInternal ==
    /\ \A c \in { [with |-> chartData(allTransactions),
                   without |-> chartData(ZeroInternal(allTransactions))] } :
         \A m \in DOMAIN c.with :
            /\ c.with[m].inflow = c.without[m].inflow
            /\ c.with[m].outflow = c.without[m].outflow
            /\ c.with[m].net = c.without[m].net
    /\ \A g \in { [with |-> groupedData(allTransactions),
                   without |-> groupedData(ZeroInternal(allTransactions))] } :
         \A m \in DOMAIN g.with : g.with[m].netFlow = g.without[m].netFlow
    /\ \A d \in { [with |-> dataSummary(allTransactions),
                   without |-> dataSummary(ZeroInternal(allTransactions))] } :
         \A m \in DOMAIN d.with :
            /\ d.with[m].inflow = d.without[m].inflow
            /\ d.with[m].outflow = d.without[m].outflow
            /\ d.with[m].net = d.without[m].net

\* what holds of the summaries: the dashboard chart's monthly figures exclude
\* INTERNAL events
DashboardNetExcludesInternal ==
    \A c \in { [with |-> chartData(allTransactions),
                without |-> chartData(ZeroInternal(allTransactions))] } :
       \A m \in DOMAIN c.with :
          /\ c.with[m].inflow = c.without[m].inflow
          /\ c.with[m].outflow = c.without[m].outflow
          /\ c.with[m].net = c.without[m].net

-----------------------------------------------------------------------------
(* The currency converter *)

\* v = hkd*rateHKD + rmb + usd*rateUSD; v, v/rateHKD or v/rateUSD
ClaimedConvert(hkd, rmb, usd) ==
    LET v == RAdd(RAdd(RMul(hkd, simRates.HKD_TO_RMB), rmb), RMul(usd, simRates.USD_TO_RMB))
    IN  IF baseCurrency = "RMB" THEN v
        ELSE IF baseCurrency = "HKD" THEN RDiv(v, simRates.HKD_TO_RMB)
        ELSE RDiv(v, simRates.USD_TO_RMB)

\* the amount triples the views convert: those of the ledger's events and the
\* starting balances
LedgerTriples ==
    { << allTransactions[i].amountHKD, allTransactions[i].amountRMB, allTransactions[i].amountUSD >> :
        i \in 1..Len(allTransactions) }
    \cup { << INITIAL_BALANCES[e].HKD, INITIAL_BALANCES[e].RMB, INITIAL_BALANCES[e].USD >> : e \in Entities }

\* amounts held in one currency only
ConvAmounts == { Num(-5), Num(1), Rat(1550, 100) }

\* the triple of an amount x held only in the base currency
BaseOnly(x) ==
    IF baseCurrency = "HKD" THEN << x, Zero, Zero >>
    ELSE IF baseCurrency = "RMB" THEN << Zero, x, Zero >>
    ELSE << Zero, Zero, x >>

\* F is the claimed function on the triples, is additive on them, and returns
\* an amount held only in the base currency as it is
ConverterOk(F(_, _, _)) ==
    /\ \A t \in LedgerTriples : F(t[1], t[2], t[3]) = ClaimedConvert(t[1], t[2], t[3])
    /\ \A t, u \in LedgerTriples :
          F(RAdd(t[1], u[1]), RAdd(t[2], u[2]), RAdd(t[3], u[3])) =
              RAdd(F(t[1], t[2], t[3]), F(u[1], u[2], u[3]))
    /\ \A x \in ConvAmounts :
          F(BaseOnly(x)[1], BaseOnly(x)[2], BaseOnly(x)[3]) = x

(* C17: each converter (the calendar's, the ledger table's, the dashboard's)
   returns v = hkd*rateHKD + rmb + usd*rateUSD when the base currency is RMB,
   v/rateHKD when it is HKD and v/rateUSD when it is USD; under the positive
   rates of the sliders it is additive and returns an amount held only in the
   base currency unchanged. *)
C17_Converter ==
    /\ RPos(simRates.HKD_TO_RMB) /\ RPos(simRates.USD_TO_RMB)
    /\ ConverterOk(convert)
    /\ ConverterOk(getTotalInBase)
    /\ ConverterOk(convertToBase)

\* the base currency is USD, both rates have been moved, and the ledger has an
\* event with amounts in HKD and in USD next to an event in RMB
C17_Witness ==
    /\ baseCurrency = "USD"
    /\ simRates.HKD_TO_RMB # DEFAULT_RATES.HKD_TO_RMB
    /\ simRates.USD_TO_RMB # DEFAULT_RATES.USD_TO_RMB
    /\ \E t \in LedgerTriples : t[1] # Zero /\ t[3] # Zero
    /\ \E i \in 1..Len(allTransactions) : allTransactions[i].amountRMB # Zero

-----------------------------------------------------------------------------
(* The debt set *)

(* C19: every debt of the debt set has startDate <= endDate, in every state
   reached by adding and editing debts through the debt form. *)
C19_StartBeforeEnd ==
    \A d \in DebtSet : GetTime(d.startDate) <= GetTime(d.endDate)

-----------------------------------------------------------------------------
(* The stress parameters *)

(* C20: in every state reached from the defaults by presets and slider
   movements, in any order, both exchange rates are strictly positive, the
   financing-failure rate is within 0..100 and each of the three shocks is
   within -200..200 bps: no converter divides by a rate that is zero or
   negative. *)
C20_ParametersInRange ==
    /\ RPos(simRates.HKD_TO_RMB)
    /\ RPos(simRates.USD_TO_RMB)
    /\ financingFailRate \in 0..100
    /\ shiborShock \in (-200)..200
    /\ hiborShock \in (-200)..200
    /\ sofrShock \in (-200)..200

\* a preset followed by sliders at their ends: the PESSIMISTIC SOFR shock is
\* kept while the other parameters sit on the ends of their ranges
C20_Witness ==
    /\ scenarioMode = "BASE"
    /\ simRates = [HKD_TO_RMB |-> Rat(8, 10), USD_TO_RMB |-> Num(8)]
    /\ financingFailRate = 100
    /\ shiborShock = -200
    /\ hiborShock = 200
    /\ sofrShock = 100

\* the six stress parameters of a state
StressParameters ==
    <<simRates.HKD_TO_RMB, simRates.USD_TO_RMB, financingFailRate, shiborShock, hiborShock, sofrShock>>

\* the bundle each preset name stands for
ClaimedBundle(mode) ==
    IF mode = "BASE" THEN <<Rat(92, 100), Rat(723, 100), 0, 0, 0, 0>>
    ELSE IF mode = "PESSIMISTIC" THEN <<Rat(85, 100), Rat(745, 100), 30, 50, 100, 100>>
    ELSE <<Rat(95, 100), Rat(710, 100), 0, -20, -20, -50>>

(* C21: applying a preset leaves the six stress parameters at that preset's
   fixed bundle whatever the state before (earlier presets, earlier slider
   movements); applied in a state that already holds the bundle under that
   mode it changes nothing (twice equals once); BASE gives the default rates
   with failure rate 0 and all shocks 0. *)
C21_PresetBundle ==
    [][\A mode \in ScenarioModes :
          ApplyScenario(mode) =>
              /\ StressParameters' = ClaimedBundle(mode)
              /\ scenarioMode' = mode
              /\ (mode = "BASE" => /\ simRates' = DEFAULT_RATES
                                   /\ <<financingFailRate', shiborShock', hiborShock', sofrShock'>> = <<0, 0, 0, 0>>)
              /\ (StressParameters = ClaimedBundle(mode) /\ scenarioMode = mode => UNCHANGED vars)]_vars

\* PESSIMISTIC has been applied
C21_Witness ==
    /\ scenarioMode = "PESSIMISTIC"
    /\ StressParameters = ClaimedBundle("PESSIMISTIC")

(* C27: in every reachable state of the scenario controller the six stress
   parameters are the bundle of the preset that scenarioMode names. *)
C27_ModeNamesBundle ==
    StressParameters = ClaimedBundle(scenarioMode)

-----------------------------------------------------------------------------
(* The initial load *)

(* C22: the initial load terminates, whether there is no cloud client or the
   fetch returns rows, returns no rows, fails or never answers: loading
   eventually becomes false; when it does, the manual list is the fetched
   non-empty list or the built-in initial list; syncStatus becomes CONNECTED
   only in a step in which the fetch returns a list while the timer has not
   fired. *)
C22_LoadTerminates ==
    /\ <>(loading = FALSE)
    /\ [][/\ (loading /\ ~loading') =>
                \/ manualTransactions' = INITIAL_TRANSACTIONS
                \/ /\ fetchState'.st = "data"
                   /\ Len(fetchState'.data) > 0
                   /\ manualTransactions' = fetchState'.data
          /\ (syncStatus = "LOCAL" /\ syncStatus' = "CONNECTED") =>
                /\ fetchState = FetchPending
                /\ fetchState'.st = "data"
                /\ timer = "armed"
                /\ timer' = "armed"]_vars

\* the fetch returned rows before the timer fired
C22_Witness ==
    /\ loading = FALSE
    /\ loadPc = "done"
    /\ syncStatus = "CONNECTED"
    /\ fetchState.st = "data"
    /\ manualTransactions = fetchState.data
    /\ Len(manualTransactions) > 0
    /\ timer = "armed"

(* C29: when the timer fires while the race is open the App is in LOCAL mode
   with the built-in initial list and loading false; a fetch result that
   arrives after the timer has fired changes neither the manual list nor
   syncStatus nor loading; once the load has ended in LOCAL mode the mode
   stays LOCAL; and in LOCAL mode no save, delete or import calls the cloud
   store. *)
C29_TimeoutSettlesLocal ==
    [][/\ (timer = "armed" /\ timer' = "fired" /\ loadPc = "race") =>
             /\ syncStatus' = "LOCAL"
             /\ manualTransactions' = INITIAL_TRANSACTIONS
             /\ loading' = FALSE
       /\ (timer = "fired" /\ fetchState = FetchPending /\ fetchState' # FetchPending) =>
             UNCHANGED <<manualTransactions, syncStatus, loading>>
       /\ (loadPc = "done" /\ syncStatus = "LOCAL") => syncStatus' = "LOCAL"
       /\ syncStatus = "LOCAL" => cloudCalls' = cloudCalls]_vars

\* the timer won, the rows arrived afterwards, and the operator has saved an entry
C29_Witness ==
    /\ isCloudEnabled
    /\ timer = "fired"
    /\ fetchState.st = "data"
    /\ Len(fetchState.data) > 0
    /\ syncStatus = "LOCAL"
    /\ loading = FALSE
    /\ Len(manualTransactions) = 2
    /\ manualTransactions[1] = INITIAL_TRANSACTIONS[1]
    /\ cloudCalls = 0

-----------------------------------------------------------------------------
(* The calendar's daily balances *)

(* C24: the calendar's daily balance map has an entry for every day from 90
   days before now to 500 days after, with or without events on that day; the
   first day's balance is the converted sum of all starting balances plus that
   day's non-INTERNAL flow, and each later day's balance is the balance of the
   day before plus that day's converted non-INTERNAL flow. *)
C24_DailyBalanceMap ==
    \A m \in { dailyBalances(allTransactions) } :
        /\ m.startDate = DayNumber(now) - LookbackDays
        /\ Len(m.balances) = LookbackDays + HorizonDays + 1
        /\ \A k \in 1..Len(m.balances) :
              m.balances[k] =
                 RAdd(IF k = 1 THEN currentTotal ELSE m.balances[k - 1],
                      DayFlow(allTransactions, DateOfDay(m.startDate + k - 1)))

\* the converted non-INTERNAL amounts of the events dated on or before the
\* day numbered z
FlowUpTo(transactions, z) ==
    LET upTo == SelectSeq(transactions, LAMBDA t : DayNumber(t.date) <= z)
    IN  RSum([i \in 1..Len(upTo) |-> CalendarAmount(upTo[i])], Len(upTo))

(* C26: for every day D of the calendar window the calendar's balance for D is
   the converted sum of all starting balances plus the converted amounts of all
   non-INTERNAL events of the ledger dated on or before D, the events dated
   before the first day of the window included. *)
C26_BalanceIsCumulative ==
    \A m \in { dailyBalances(allTransactions) } :
        \A z \in (DayNumber(now) - LookbackDays)..(DayNumber(now) + HorizonDays) :
            BalanceOn(m, DateOfDay(z)) = RAdd(currentTotal, FlowUpTo(allTransactions, z))

-----------------------------------------------------------------------------
(* The dashboard's monthly aggregation *)

\* the entities of the dashboard's scope
ChartScope == IF chartFilter = "ALL" THEN Entities ELSE {chartFilter}

\* the converted starting balance of the scope
ScopeStart ==
    LET p == INITIAL_BALANCES.PROPERTY
        e == INITIAL_BALANCES.ENTERPRISE
    IN  RAdd(IF "PROPERTY" \in ChartScope THEN convertToBase(p.HKD, p.RMB, p.USD) ELSE Zero,
             IF "ENTERPRISE" \in ChartScope THEN convertToBase(e.HKD, e.RMB, e.USD) ELSE Zero)

\* the sum of the converted amounts of a list of events
ConvertedSum(events) ==
    RSum([i \in 1..Len(events) |->
             convertToBase(events[i].amountHKD, events[i].amountRMB, events[i].amountUSD)],
         Len(events))

(* C25: the dashboard has one bucket for each YYYY-MM in which the ledger has
   an event and no other; in each bucket net = inflow - outflow with inflow >= 0
   and outflow >= 0, net being the converted sum of the month's non-INTERNAL
   events of the scope; and the bucket's balance is, rounded to 2 decimals, the
   converted starting balance of the scope plus the converted amounts of all
   events of the scope dated in that month or an earlier one. *)
C25_MonthlyBuckets ==
    \A data \in { chartData(allTransactions) } :
        /\ DOMAIN data = { MonthKey(allTransactions[i].date) : i \in 1..Len(allTransactions) }
        /\ \A month \in DOMAIN data :
              LET b == data[month]
                  flows == SelectSeq(allTransactions,
                              LAMBDA t : /\ MonthKey(t.date) = month
                                         /\ t.category # "INTERNAL"
                                         /\ t.entity \in ChartScope)
                  upTo == SelectSeq(allTransactions,
                              LAMBDA t : MonthKey(t.date) <= month /\ t.entity \in ChartScope)
              IN  /\ b.month = month
                  /\ b.net = RAdd(b.inflow, RNeg(b.outflow))
                  /\ RLe(Zero, b.inflow)
                  /\ RLe(Zero, b.outflow)
                  /\ b.net = ConvertedSum(flows)
                  /\ b.filteredBalance = Round2(RAdd(ScopeStart, ConvertedSum(upTo)))

\* the ENTERPRISE view in HKD of a ledger with a January dividend and an April
\* INTERNAL transfer: two buckets, the second with no flow and a moved balance
C25_Witness ==
    /\ chartFilter = "ENTERPRISE"
    /\ baseCurrency = "HKD"
    /\ \E i, j \in 1..Len(allTransactions) :
          /\ allTransactions[i].entity = "ENTERPRISE"
          /\ allTransactions[i].category = "INVESTING"
          /\ MonthKey(allTransactions[i].date) = 202401
          /\ allTransactions[j].entity = "ENTERPRISE"
          /\ allTransactions[j].category = "INTERNAL"
          /\ MonthKey(allTransactions[j].date) = 202404

-----------------------------------------------------------------------------
(* The sign of the generated amounts *)

(* C28: for every debt with principal >= 0 and base rate >= 0, under every
   failure rate and every shock the scenario controller can set, every draw
   amount is >= 0 and every interest and repayment amount is <= 0: a debt never
   produces an interest inflow. *)
C28_SignOfAmounts ==
    \A debt \in DebtSet :
        (RLe(Zero, debt.principal) /\ RLe(Zero, debt.baseRate)) =>
            \A e \in SeqToSet(EventsOf(debtTransactions, debt.id)) :
                IF e.id.kind = "princ-in"
                THEN RLe(Zero, AmountIn(e, debt.currency))
                ELSE RLe(AmountIn(e, debt.currency), Zero)

-----------------------------------------------------------------------------
(* The dashboard against the ledger table *)

(* C30: when the dashboard and the ledger table show the same scope (all
   entities, or the same entity), then for every month in which the table has
   a bucket the dashboard's balance of that month is the table's month-end
   balance rounded to 2 decimals. *)
C30_DashboardMatchesTable ==
    entityFilter = chartFilter =>
        \A v \in { [chart |-> chartData(allTransactions), table |-> groupedData(allTransactions)] } :
            \A month \in DOMAIN v.table :
                /\ month \in DOMAIN v.chart
                /\ v.chart[month].filteredBalance = Round2(v.table[month].monthEndBal)

====
